---------------------------- MODULE Spec2Model ----------------------------
(***************************************************************************)
(* A model of the itinerary serialization engine of crew-me                *)
(* (src/travel_xml.py) and of the export step of its session loop          *)
(* (src/main.py).                                                          *)
(*                                                                         *)
(* Text.  A Python str is a sequence of characters.  An ASCII character is *)
(* the one-character string itself; a non-ASCII character is the string    *)
(* "Uxxxx" of its code point (U7B2C is 第, U5929 is 天, ...), and so is the  *)
(* backquote, U0060, which a TLA+ string cannot hold.  Offsets are         *)
(* Python's: 0-based, a slice s[a:b] is SubSeq(s, a + 1, b).               *)
(***************************************************************************)
EXTENDS Integers, Sequences, FiniteSets, TLC

\* Python None where an Optional[str] is expected: no character is "None".
None == <<"None">>

\* Python truthiness of an Optional[str]: neither None nor the empty string.
Truthy(x) == x /= None /\ x /= <<>>

\* A local of the code bound to its value: F applied to v.
Bind(v, F(_)) == F(v)

\* x or y, for Optional[str].
OrElse(x, y) == IF Truthy(x) THEN x ELSE y

------------------------------------------------------------------------------
(* Character classes of the re module, over the characters the model uses. *)

\* \s
WS == {" ", "\n", "\t"}

\* \d
Digits == {"0", "1", "2", "3", "4", "5", "6", "7", "8", "9"}

LowerLetters ==
    {"a", "b", "c", "d", "e", "f", "g", "h", "i", "j", "k", "l", "m",
     "n", "o", "p", "q", "r", "s", "t", "u", "v", "w", "x", "y", "z"}

UpperLetters ==
    {"A", "B", "C", "D", "E", "F", "G", "H", "I", "J", "K", "L", "M",
     "N", "O", "P", "Q", "R", "S", "T", "U", "V", "W", "X", "Y", "Z"}

\* The CJK ideographs of the keyword tables and literals: 第天小时钟分上午下晚夜
\* 地铁公交步行出租打车自驾高火飞机 西湖餐.
CJK ==
    {"U7B2C", "U5929", "U5C0F", "U65F6", "U949F", "U5206", "U4E0A", "U5348",
     "U4E0B", "U665A", "U591C", "U5730", "U94C1", "U516C", "U4EA4", "U6B65",
     "U884C", "U51FA", "U79DF", "U6253", "U8F66", "U81EA", "U9A7E", "U9AD8",
     "U706B", "U98DE", "U673A", "U897F", "U6E56", "U9910"}

\* \w (str patterns are Unicode: ideographs are word characters).
WordChars == LowerLetters \cup UpperLetters \cup Digits \cup {"_"} \cup CJK

\* str.lower() of one character.
LowerChar(c) ==
    CASE c = "A" -> "a" [] c = "B" -> "b" [] c = "C" -> "c" [] c = "D" -> "d"
      [] c = "E" -> "e" [] c = "F" -> "f" [] c = "G" -> "g" [] c = "H" -> "h"
      [] c = "I" -> "i" [] c = "J" -> "j" [] c = "K" -> "k" [] c = "L" -> "l"
      [] c = "M" -> "m" [] c = "N" -> "n" [] c = "O" -> "o" [] c = "P" -> "p"
      [] c = "Q" -> "q" [] c = "R" -> "r" [] c = "S" -> "s" [] c = "T" -> "t"
      [] c = "U" -> "u" [] c = "V" -> "v" [] c = "W" -> "w" [] c = "X" -> "x"
      [] c = "Y" -> "y" [] c = "Z" -> "z" [] OTHER -> c

\* str.lower()
Lower(s) == [i \in 1..Len(s) |-> LowerChar(s[i])]

\* The character at Python offset o, "EOF" (in no class) past either end.
At(s, o) == IF o >= 0 /\ o < Len(s) THEN s[o + 1] ELSE "EOF"

\* The offset of the first character at or after o that is not in class C:
\* where a greedy C* started at o ends.
SkipClass(s, o, C) ==
    IF o >= Len(s) THEN o
    ELSE CHOOSE k \in o..Len(s) :
             At(s, k) \notin C /\ \A j \in o..(k - 1) : At(s, j) \in C

\* The offset after the trailing run of class C ending before offset e.
SkipClassBack(s, e, C) ==
    CHOOSE k \in 0..e :
        (k = 0 \/ s[k] \notin C) /\ \A j \in (k + 1)..e : s[j] \in C

\* s[a:b] for a, b >= 0: offsets past the end are clamped, as Python does.
Slice(s, a, b) == SubSeq(s, a + 1, IF b > Len(s) THEN Len(s) ELSE b)

\* str.strip(chars) with the characters given as a set.
StripChars(s, C) ==
    LET a == SkipClass(s, 0, C)
        b == SkipClassBack(s, Len(s), C)
    IN  IF a >= b THEN <<>> ELSE Slice(s, a, b)

\* str.strip()
Strip(s) == StripChars(s, WS)

\* str.lstrip(chars)
LStripChars(s, C) == Slice(s, SkipClass(s, 0, C), Len(s))

\* pat in s: whether pat occurs in s at offset o, and anywhere.
OccursAt(s, pat, o) ==
    o + Len(pat) <= Len(s) /\ \A i \in 1..Len(pat) : s[o + i] = pat[i]

Contains(s, pat) == \E o \in 0..Len(s) : OccursAt(s, pat, o)

\* The offset of the first character at or after o that is in class C, or
\* len(s) when there is none.
FindClass(s, o, C) ==
    IF o >= Len(s) THEN o
    ELSE CHOOSE k \in o..Len(s) :
             (k = Len(s) \/ s[k + 1] \in C) /\ \A j \in o..(k - 1) : s[j + 1] \notin C

\* str.splitlines(): the lines between line breaks; a trailing line break
\* opens no last empty line, and the empty string has no lines.
RECURSIVE SplitLines(_)
SplitLines(s) ==
    IF s = <<>> THEN <<>>
    ELSE LET e == FindClass(s, 0, {"\n"})
         IN  <<Slice(s, 0, e)>> \o SplitLines(Slice(s, e + 1, Len(s)))

\* int(s) of a string of decimal digits.
DigitValue(c) ==
    CASE c = "0" -> 0 [] c = "1" -> 1 [] c = "2" -> 2 [] c = "3" -> 3
      [] c = "4" -> 4 [] c = "5" -> 5 [] c = "6" -> 6 [] c = "7" -> 7
      [] c = "8" -> 8 [] c = "9" -> 9

RECURSIVE ParseInt(_)
ParseInt(s) ==
    IF s = <<>> THEN 0
    ELSE 10 * ParseInt(SubSeq(s, 1, Len(s) - 1)) + DigitValue(s[Len(s)])

\* str(n) of an integer n >= 0.
DigitChar(d) == <<"0", "1", "2", "3", "4", "5", "6", "7", "8", "9">>[d + 1]

RECURSIVE IntStr(_)
IntStr(n) ==
    IF n < 10 THEN <<DigitChar(n)>>
    ELSE IntStr(n \div 10) \o <<DigitChar(n % 10)>>

RECURSIVE Pow10(_)
Pow10(k) == IF k = 0 THEN 1 ELSE 10 * Pow10(k - 1)

Max(S) == CHOOSE x \in S : \A y \in S : y <= x

Min(S) == CHOOSE x \in S : \A y \in S : x <= y

------------------------------------------------------------------------------
(* The itinerary model: PlanItem, DayPlan, TravelPlan.                     *)

PlanItem(period, title, note, duration, transport) ==
    [period |-> period, title |-> title, location |-> None,
     transport |-> transport, duration |-> duration, cost |-> None,
     note |-> note]

DayPlan(index, items, note) == [index |-> index, items |-> items, note |-> note]

TravelPlan(destination, days, budget, preferences, summary, tips, daily) ==
    [destination |-> destination, days |-> days, budget |-> budget,
     preferences |-> preferences, summary |-> summary, tips |-> tips,
     daily |-> daily]

------------------------------------------------------------------------------
(* The markdown day/item parser.                                           *)

\* _detect_period: the first keyword group that occurs in the lowered line.
DetectPeriod(line) ==
    LET l == Lower(line)
    IN  IF Contains(l, <<"U4E0A", "U5348">>)
           \/ Contains(l, <<"m", "o", "r", "n", "i", "n", "g">>)
          THEN <<"m", "o", "r", "n", "i", "n", "g">>
        ELSE IF Contains(l, <<"U4E0B", "U5348">>)
                \/ Contains(l, <<"a", "f", "t", "e", "r", "n", "o", "o", "n">>)
          THEN <<"a", "f", "t", "e", "r", "n", "o", "o", "n">>
        ELSE IF Contains(l, <<"U665A", "U4E0A">>)
                \/ Contains(l, <<"e", "v", "e", "n", "i", "n", "g">>)
                \/ Contains(l, <<"U591C">>)
          THEN <<"e", "v", "e", "n", "i", "n", "g">>
        ELSE <<"o", "t", "h", "e", "r">>

\* IEEE doubles: the decimal literals <<integer part, fraction digits>>, up to
\* two integer and two fraction digits, for which float(s) * 60 falls just
\* below the exact product, so that int() yields one less than the floor of
\* the exact product (4.1 * 60 is 245.99999999999997).
FloatProductShort ==
    {<<2, <<"0", "5">>>>, <<4, <<"1">>>>, <<4, <<"1", "0">>>>,
     <<8, <<"2">>>>, <<8, <<"2", "0">>>>, <<8, <<"4", "5">>>>,
     <<16, <<"4">>>>, <<16, <<"9">>>>, <<16, <<"1", "5">>>>,
     <<16, <<"4", "0">>>>, <<16, <<"6", "5">>>>, <<16, <<"9", "0">>>>,
     <<32, <<"3">>>>, <<32, <<"8">>>>, <<32, <<"0", "5">>>>,
     <<32, <<"3", "0">>>>, <<32, <<"5", "5">>>>, <<32, <<"8", "0">>>>,
     <<33, <<"3">>>>, <<33, <<"8">>>>, <<33, <<"0", "5">>>>,
     <<33, <<"3", "0">>>>, <<33, <<"5", "5">>>>, <<33, <<"8", "0">>>>,
     <<34, <<"0", "5">>>>, <<64, <<"1">>>>, <<64, <<"6">>>>,
     <<64, <<"1", "0">>>>, <<64, <<"3", "5">>>>, <<64, <<"6", "0">>>>,
     <<64, <<"8", "5">>>>, <<65, <<"1">>>>, <<65, <<"6">>>>,
     <<65, <<"1", "0">>>>, <<65, <<"3", "5">>>>, <<65, <<"6", "0">>>>,
     <<65, <<"8", "5">>>>, <<66, <<"1">>>>, <<66, <<"6">>>>,
     <<66, <<"1", "0">>>>, <<66, <<"3", "5">>>>, <<66, <<"6", "0">>>>,
     <<66, <<"8", "5">>>>, <<67, <<"1">>>>, <<67, <<"6">>>>,
     <<67, <<"1", "0">>>>, <<67, <<"3", "5">>>>, <<67, <<"6", "0">>>>,
     <<67, <<"8", "5">>>>, <<68, <<"1">>>>, <<68, <<"1", "0">>>>}

\* int(float(ip "." fp) * 60): hours to minutes, truncated.
HoursToMinutes(ip, fp) ==
    LET exact == ((ParseInt(ip) * Pow10(Len(fp)) + ParseInt(fp)) * 60)
                     \div Pow10(Len(fp))
    IN  IF <<ParseInt(ip), fp>> \in FloatProductShort THEN exact - 1 ELSE exact

\* None where an Optional[int] is expected.
NoMinutes == -1

\* re.search(r"(\d+(?:\.\d+)?)\s*(小时|h|小时钟|hr|hrs)", text) tried at offset
\* o: the digits and the fraction are greedy, and no shorter choice of either
\* can succeed where the longest fails (what follows a shorter one is a digit
\* or the dot).  Every unit alternative begins with 小时 or with h.
HoursMatchAt(s, o) ==
    LET e == SkipClass(s, o, Digits)
        f == IF At(s, e) = "." /\ At(s, e + 1) \in Digits
             THEN SkipClass(s, e + 1, Digits) ELSE e
        u == SkipClass(s, f, WS)
    IN  [ok |-> e > o /\ (At(s, u) = "h"
                          \/ (At(s, u) = "U5C0F" /\ At(s, u + 1) = "U65F6")),
         ip |-> Slice(s, o, e),
         fp |-> IF f > e THEN Slice(s, e + 1, f) ELSE <<>>]

\* re.search(r"(\d+)\s*(分钟|min|mins)", text) tried at offset o.
MinutesMatchAt(s, o) ==
    LET e == SkipClass(s, o, Digits)
        u == SkipClass(s, e, WS)
    IN  [ok |-> e > o /\ ((At(s, u) = "U5206" /\ At(s, u + 1) = "U949F")
                          \/ OccursAt(s, <<"m", "i", "n">>, u)),
         ip |-> Slice(s, o, e)]

\* _extract_duration_minutes: the leftmost hours match, else the leftmost
\* minutes match, else None.
ExtractDurationMinutes(text) ==
    LET H == {o \in 0..Len(text) : HoursMatchAt(text, o).ok}
        M == {o \in 0..Len(text) : MinutesMatchAt(text, o).ok}
    IN  IF H /= {}
          THEN LET m == HoursMatchAt(text, Min(H)) IN HoursToMinutes(m.ip, m.fp)
        ELSE IF M /= {}
          THEN ParseInt(MinutesMatchAt(text, Min(M)).ip)
        ELSE NoMinutes

\* _extract_transport: the ordered keyword table, first match wins.
TransportPairs ==
    << <<<<"U5730", "U94C1">>, <<"s", "u", "b", "w", "a", "y">>>>,
       <<<<"U516C", "U4EA4">>, <<"b", "u", "s">>>>,
       <<<<"U6B65", "U884C">>, <<"w", "a", "l", "k">>>>,
       <<<<"U51FA", "U79DF">>, <<"t", "a", "x", "i">>>>,
       <<<<"U6253", "U8F66">>, <<"t", "a", "x", "i">>>>,
       <<<<"U81EA", "U9A7E">>, <<"d", "r", "i", "v", "e">>>>,
       <<<<"U9AD8", "U94C1">>, <<"r", "a", "i", "l">>>>,
       <<<<"U706B", "U8F66">>, <<"r", "a", "i", "l">>>>,
       <<<<"U98DE", "U673A">>, <<"f", "l", "i", "g", "h", "t">>>> >>

ExtractTransport(text) ==
    LET K == {k \in 1..Len(TransportPairs) : Contains(text, TransportPairs[k][1])}
    IN  IF K = {} THEN None ELSE TransportPairs[Min(K)][2]

OpenParens == {"(", "UFF08"}

CloseParens == {")", "UFF09"}

\* _split_title_and_note.  re.match(r"^(.*?)[（(](.*?)[）)]\s*$", text): the
\* closing parenthesis is the last character that is not whitespace (only
\* whitespace may follow it) and the lazy first group stops at the first
\* opening parenthesis before it.  Else the first hyphen splits the text when
\* both sides are non-empty.  The result is <<title, note>>.
SplitTitleAndNote(text0) ==
    LET text == StripChars(Strip(text0), {"U3002"})
        b == SkipClassBack(text, Len(text), WS)
        opens == {a \in 0..(b - 2) : text[a + 1] \in OpenParens}
        h == FindClass(text, 0, {"-"})
        left == Strip(Slice(text, 0, h))
        right == Strip(Slice(text, h + 1, Len(text)))
    IN  IF b >= 1 /\ text[b] \in CloseParens /\ opens /= {}
          THEN LET a == Min(opens)
                   title == Strip(Slice(text, 0, a))
                   note == Strip(Slice(text, a + 1, b - 1))
               IN  <<IF title /= <<>> THEN title ELSE text,
                     IF note /= <<>> THEN note ELSE None>>
        ELSE IF h < Len(text) /\ left /= <<>> /\ right /= <<>>
          THEN <<left, right>>
        ELSE <<text, None>>

\* The day-heading pattern of parse_markdown_days, with re.IGNORECASE and
\* re.MULTILINE, tried at offset o:
\*   ^(?:#+\s*)?(第?\s*(\d+)\s*天|day\s*(\d+)|d\s*(\d+))\b
\* ^ holds at offset 0 and after a line break.  Every quantifier is greedy and
\* none can succeed shorter where it fails at its longest.  \b after the last
\* character (天 or a digit, both word characters) asks for a following
\* character that is no word character, or the end.  The result carries the
\* end offset and the digits of the one digit group that took part.
HeadingMatchAt(md, o) ==
    LET i == IF At(md, o) = "#"
             THEN SkipClass(md, SkipClass(md, o, {"#"}), WS) ELSE o
        \* 第?\s*(\d+)\s*天
        k1 == SkipClass(md, IF At(md, i) = "U7B2C" THEN i + 1 ELSE i, WS)
        e1 == SkipClass(md, k1, Digits)
        t1 == SkipClass(md, e1, WS)
        ok1 == e1 > k1 /\ At(md, t1) = "U5929" /\ At(md, t1 + 1) \notin WordChars
        \* day\s*(\d+)
        k2 == SkipClass(md, i + 3, WS)
        e2 == SkipClass(md, k2, Digits)
        ok2 == LowerChar(At(md, i)) = "d" /\ LowerChar(At(md, i + 1)) = "a"
               /\ LowerChar(At(md, i + 2)) = "y"
               /\ e2 > k2 /\ At(md, e2) \notin WordChars
        \* d\s*(\d+)
        k3 == SkipClass(md, i + 1, WS)
        e3 == SkipClass(md, k3, Digits)
        ok3 == LowerChar(At(md, i)) = "d" /\ e3 > k3 /\ At(md, e3) \notin WordChars
        bol == o = 0 \/ md[o] = "\n"
    IN  IF bol /\ ok1 THEN [ok |-> TRUE, end |-> t1 + 1, digits |-> Slice(md, k1, e1)]
        ELSE IF bol /\ ok2 THEN [ok |-> TRUE, end |-> e2, digits |-> Slice(md, k2, e2)]
        ELSE IF bol /\ ok3 THEN [ok |-> TRUE, end |-> e3, digits |-> Slice(md, k3, e3)]
        ELSE [ok |-> FALSE, end |-> o, digits |-> <<>>]

\* pattern.finditer(md) from offset o: the matches in order, none overlapping,
\* as [start, end, num] with num = int(the digit group).
RECURSIVE FindHeadings(_, _)
FindHeadings(md, o) ==
    Bind({k \in o..(Len(md) - 1) : HeadingMatchAt(md, k).ok}, LAMBDA K :
        IF K = {} THEN <<>>
        ELSE Bind(Min(K), LAMBDA k :
             Bind(HeadingMatchAt(md, k), LAMBDA m :
                 <<[start |-> k, end |-> m.end, num |-> ParseInt(m.digits)]>>
                     \o FindHeadings(md, m.end))))

\* A faulty parts list: the block of a heading starts at the line after the
\* heading.
HeadingPartsNextLine(md) ==
    Bind(FindHeadings(md, 0), LAMBDA hs :
        [k \in 1..Len(hs) |->
            [num |-> hs[k].num,
             start |-> LET e == IF k < Len(hs) THEN hs[k + 1].start ELSE Len(md)
                           n == FindClass(md, hs[k].end, {"\n"})
                       IN  IF n + 1 < e THEN n + 1 ELSE e,
             end |-> IF k < Len(hs) THEN hs[k + 1].start ELSE Len(md)]])

\* The parts list of parse_markdown_days: [num, start, end] per heading, the
\* block running from the end of the match to the start of the next match, or
\* to the end of the document.
HeadingParts(md) ==
    Bind(FindHeadings(md, 0), LAMBDA hs :
        [k \in 1..Len(hs) |->
            [num |-> hs[k].num, start |-> hs[k].end,
             end |-> IF k < Len(hs) THEN hs[k + 1].start ELSE Len(md)]])

\* The PlanItem of one line that passed the filter.
LineItem(l) ==
    LET tn == SplitTitleAndNote(l)
        dur == ExtractDurationMinutes(l)
    IN  PlanItem(DetectPeriod(l), tn[1], tn[2],
                 IF dur /= NoMinutes /\ dur /= 0 THEN IntStr(dur) ELSE None,
                 ExtractTransport(l))

\* line.strip().lstrip("-•*").strip()
BulletText(line) == Strip(LStripChars(Strip(line), {"-", "U2022", "*"}))

\* The items of a chunk: the lines that are not blank and not shorter than two
\* characters once the bullet marker is dropped.
RECURSIVE LineItems(_)
LineItems(lines) ==
    IF lines = <<>> THEN <<>>
    ELSE LET l == BulletText(Head(lines))
         IN  (IF l = <<>> \/ Len(l) < 2 THEN <<>> ELSE <<LineItem(l)>>)
                 \o LineItems(Tail(lines))

\* A faulty block: the chunk is kept as the note of a day with items too.
BlockDayAlwaysNote(md, part) ==
    Bind(Strip(Slice(md, part.start, part.end)), LAMBDA chunk :
        DayPlan(part.num, LineItems(SplitLines(chunk)), chunk))

\* The DayPlan of one part.
BlockDay(md, part) ==
    Bind(Strip(Slice(md, part.start, part.end)), LAMBDA chunk :
        Bind(LineItems(SplitLines(chunk)), LAMBDA items :
            DayPlan(part.num, items, IF items /= <<>> THEN None ELSE chunk)))

\* A faulty by_num: the first block of each index is kept.
ByNumFirst(blocks, i) ==
    LET K == {k \in 1..Len(blocks) : blocks[k].index = i}
    IN  IF K = {} THEN DayPlan(i, <<>>, <<>>) ELSE blocks[Min(K)]

\* by_num.get(i, DayPlan(index=i, note="")): a dict comprehension keeps the
\* last block of each index.
ByNum(blocks, i) ==
    LET K == {k \in 1..Len(blocks) : blocks[k].index = i}
    IN  IF K = {} THEN DayPlan(i, <<>>, <<>>) ELSE blocks[Max(K)]

\* A faulty parse_markdown_days: the blocks as the headings gave them, without
\* the reconciliation against 1..total_days.
ParseMarkdownDaysUnreconciled(md, total_days) ==
    Bind(HeadingParts(md), LAMBDA parts :
        IF parts = <<>>
          THEN [i \in 1..total_days |-> DayPlan(i, <<>>, Strip(md))]
        ELSE [k \in 1..Len(parts) |-> BlockDay(md, parts[k])])

\* A faulty parse_markdown_days: without headings only the first day carries
\* the document as its note.
ParseMarkdownDaysNoteOnce(md, total_days) ==
    Bind(HeadingParts(md), LAMBDA parts :
        IF parts = <<>>
          THEN [i \in 1..total_days |->
                   DayPlan(i, <<>>, IF i = 1 THEN Strip(md) ELSE <<>>)]
        ELSE Bind([k \in 1..Len(parts) |-> BlockDay(md, parts[k])], LAMBDA blocks :
                 [i \in 1..total_days |-> ByNum(blocks, i)]))

\* parse_markdown_days
ParseMarkdownDays(md, total_days) ==
    Bind(HeadingParts(md), LAMBDA parts :
        IF parts = <<>>
          THEN [i \in 1..total_days |-> DayPlan(i, <<>>, Strip(md))]
        ELSE Bind([k \in 1..Len(parts) |-> BlockDay(md, parts[k])], LAMBDA blocks :
                 [i \in 1..total_days |-> ByNum(blocks, i)]))

------------------------------------------------------------------------------
(* JSON values as json.load returns them: a tagged value; a dict is the    *)
(* sequence of its <<key, value>> pairs in document order, keys distinct.  *)

JStr(c) == <<"str", c>>

JNum(n) == <<"num", n>>

JNull == <<"null", 0>>

JBool(b) == <<"bool", b>>

JList(items) == <<"list", items>>

JDict(pairs) == <<"dict", pairs>>

TypeOf(x) == x[1]

ValueOf(x) == x[2]

\* dict.get(key): the value under the key, None (JSON null) without it.
Get(d, key) ==
    LET K == {k \in 1..Len(ValueOf(d)) : ValueOf(d)[k][1] = key}
    IN  IF K = {} THEN JNull ELSE ValueOf(d)[Min(K)][2]

\* key in dict
HasKey(d, key) == \E k \in 1..Len(ValueOf(d)) : ValueOf(d)[k][1] = key

\* Python truthiness of a loaded value.
Truth(x) ==
    CASE TypeOf(x) = "null" -> FALSE
      [] TypeOf(x) = "bool" -> ValueOf(x)
      [] TypeOf(x) = "num" -> ValueOf(x) /= 0
      [] OTHER -> ValueOf(x) /= <<>>

\* str(x) of a loaded string, integer, boolean or null.
PyStr(x) ==
    CASE TypeOf(x) = "num" -> IntStr(ValueOf(x))
      [] TypeOf(x) = "null" -> <<"N", "o", "n", "e">>
      [] TypeOf(x) = "bool" -> IF ValueOf(x) THEN <<"T", "r", "u", "e">> ELSE <<"F", "a", "l", "s", "e">>
      [] OTHER -> ValueOf(x)

------------------------------------------------------------------------------
(* SchemaShape and its three sources.                                      *)

\* SchemaShape(): the dataclass defaults.
DefaultShape ==
    [root |-> <<"T", "r", "a", "v", "e", "l", "P", "l", "a", "n">>,   \* 'TravelPlan'
     ns |-> <<"None">>,   \* None
     version_value |-> <<"None">>,   \* None
     meta |-> <<"M", "e", "t", "a">>,   \* 'Meta'
     destination |-> <<"D", "e", "s", "t", "i", "n", "a", "t", "i", "o", "n">>,   \* 'Destination'
     days_tag |-> <<"D", "a", "y", "s">>,   \* 'Days'
     day_tag |-> <<"D", "a", "y">>,   \* 'Day'
     day_index_attr |-> <<"i", "n", "d", "e", "x">>,   \* 'index'
     note |-> <<"N", "o", "t", "e">>,   \* 'Note'
     items_tag |-> <<"I", "t", "e", "m", "s">>,   \* 'Items'
     item_tag |-> <<"I", "t", "e", "m">>,   \* 'Item'
     period_attr |-> <<"p", "e", "r", "i", "o", "d">>,   \* 'period'
     title |-> <<"T", "i", "t", "l", "e">>,   \* 'Title'
     location |-> <<"L", "o", "c", "a", "t", "i", "o", "n">>,   \* 'Location'
     transport |-> <<"T", "r", "a", "n", "s", "p", "o", "r", "t">>,   \* 'Transport'
     duration |-> <<"D", "u", "r", "a", "t", "i", "o", "n">>,   \* 'Duration'
     cost |-> <<"C", "o", "s", "t">>,   \* 'Cost'
     summary |-> <<"S", "u", "m", "m", "a", "r", "y">>,   \* 'Summary'
     tips |-> <<"T", "i", "p", "s">>,   \* 'Tips'
     preferences |-> <<"P", "r", "e", "f", "e", "r", "e", "n", "c", "e", "s">>,   \* 'Preferences'
     budget |-> <<"B", "u", "d", "g", "e", "t">>,   \* 'Budget'
     days_count |-> <<"D", "a", "y", "s">>,   \* 'Days'
     mode |-> <<"d", "e", "f", "a", "u", "l", "t">>,   \* 'default'
     timeline_tag |-> <<"T", "i", "m", "e", "l", "i", "n", "e">>,   \* 'Timeline'
     event_tag |-> <<"E", "v", "e", "n", "t">>,   \* 'Event'
     event_type_attr |-> <<"t", "y", "p", "e">>,   \* 'type'
     event_id_attr |-> <<"i", "d">>,   \* 'id'
     timeslot_tag |-> <<"T", "i", "m", "e", "S", "l", "o", "t">>,   \* 'TimeSlot'
     timeslot_day |-> <<"D", "a", "y">>,   \* 'Day'
     timeslot_start |-> <<"S", "t", "a", "r", "t", "T", "i", "m", "e">>,   \* 'StartTime'
     timeslot_end |-> <<"E", "n", "d", "T", "i", "m", "e">>,   \* 'EndTime'
     timeslot_duration |-> <<"D", "u", "r", "a", "t", "i", "o", "n">>,   \* 'Duration'
     activity_tag |-> <<"A", "c", "t", "i", "v", "i", "t", "y">>,   \* 'Activity'
     activity_title |-> <<"T", "i", "t", "l", "e">>,   \* 'Title'
     activity_desc |-> <<"D", "e", "s", "c", "r", "i", "p", "t", "i", "o", "n">>,   \* 'Description'
     activity_category |-> <<"C", "a", "t", "e", "g", "o", "r", "y">>,   \* 'Category'
     meta_title |-> <<"T", "i", "t", "l", "e">>,   \* 'Title'
     meta_total_days |-> <<"T", "o", "t", "a", "l", "D", "a", "y", "s">>,   \* 'TotalDays'
     meta_destinations |-> <<"D", "e", "s", "t", "i", "n", "a", "t", "i", "o", "n", "s">>,   \* 'Destinations'
     meta_city |-> <<"C", "i", "t", "y">>,   \* 'City'
     meta_travel_style |-> <<"T", "r", "a", "v", "e", "l", "S", "t", "y", "l", "e">>,   \* 'TravelStyle'
     meta_budget |-> <<"B", "u", "d", "g", "e", "t">>,   \* 'Budget'
     meta_currency |-> <<"C", "u", "r", "r", "e", "n", "c", "y">>,   \* 'Currency'
     meta_total_estimate |-> <<"T", "o", "t", "a", "l", "E", "s", "t", "i", "m", "a", "t", "e">>,   \* 'TotalEstimate'
     meta_per_person |-> <<"P", "e", "r", "P", "e", "r", "s", "o", "n">>]   \* 'PerPerson'

ModeTimeline == <<"t", "i", "m", "e", "l", "i", "n", "e">>

\* Names for which hasattr(SchemaShape(), k) holds besides the 45 fields, and
\* for which setattr(s, k, <a str>) raises: __class__ and __dict__ reject a
\* str (TypeError), __weakref__ is not writable (AttributeError).
RejectingAttrs == {"__class__", "__dict__", "__weakref__"}

\* Other attributes every instance has (methods and class attributes):
\* setattr stores an instance attribute that no code of the module reads.
InertAttrs == {"__doc__", "__init__", "__eq__", "__repr__", "__module__"}

\* hasattr(s, k)
HasAttr(s, k) == k \in DOMAIN s \cup RejectingAttrs \cup InertAttrs

\* The loop of _shape_from_map over the pairs still to apply: the shape, or
\* the exception of the first setattr that raises.
RECURSIVE ApplyMapPairs(_, _)
ApplyMapPairs(s, pairs) ==
    IF pairs = <<>> THEN [raised |-> FALSE, shape |-> s]
    ELSE LET k == Head(pairs)[1]
             v == Head(pairs)[2]
         IN  IF HasAttr(s, k) /\ TypeOf(v) = "str"
               THEN IF k \in RejectingAttrs
                      THEN [raised |-> TRUE, shape |-> s]
                    ELSE IF k \in DOMAIN s
                      THEN ApplyMapPairs([s EXCEPT ![k] = ValueOf(v)], Tail(pairs))
                    ELSE ApplyMapPairs(s, Tail(pairs))
             ELSE ApplyMapPairs(s, Tail(pairs))

\* _shape_from_map: mapping.items() raises AttributeError unless the loaded
\* value is a dict.
ShapeFromMap(mapping) ==
    IF TypeOf(mapping) /= "dict" THEN [raised |-> TRUE, shape |-> DefaultShape]
    ELSE ApplyMapPairs(DefaultShape, ValueOf(mapping))

\* An element as ElementTree holds it.  The tag "{ns}name" is the record
\* [ns, name], ns = None for an unqualified tag; attrib is the dict of the
\* attributes; text is None or a string.
Element(tag, attrib, text, children) ==
    [tag |-> tag, attrib |-> attrib, text |-> text, children |-> children]

NoAttrib == [k \in {} |-> <<>>]

\* _strip_ns
StripNs(tag) == tag.name

\* _ci_find_child: the dict comprehension keeps, for each lowered local name,
\* the last child of that name; the first name of the list that is a key wins.
\* The result is the child's position, 0 for None.
CiFindChild(elem, names) ==
    LET last(n) == {k \in 1..Len(elem.children) :
                        Lower(StripNs(elem.children[k].tag)) = Lower(n)}
        N == {i \in 1..Len(names) : last(names[i]) /= {}}
    IN  IF N = {} THEN 0 ELSE Max(last(names[Min(N)]))

TimelineNames ==
    << <<"T", "i", "m", "e", "l", "i", "n", "e">>,
       <<"t", "i", "m", "e", "l", "i", "n", "e">> >>

MetaNames ==
    << <<"M", "e", "t", "a">>, <<"m", "e", "t", "a">>,
       <<"I", "n", "f", "o">>, <<"H", "e", "a", "d", "e", "r">> >>

DaysNames ==
    << <<"D", "a", "y", "s">>, <<"d", "a", "y", "s">>,
       <<"I", "t", "i", "n", "e", "r", "a", "r", "y">>,
       <<"I", "t", "i", "n", "e", "r", "a", "r", "i", "e", "s">>,
       <<"S", "c", "h", "e", "d", "u", "l", "e">>,
       <<"S", "c", "h", "e", "d", "u", "l", "e", "s">> >>

ItemsNames ==
    << <<"I", "t", "e", "m", "s">>, <<"i", "t", "e", "m", "s">>,
       <<"P", "l", "a", "n">>, <<"P", "l", "a", "n", "s">>,
       <<"A", "c", "t", "i", "v", "i", "t", "i", "e", "s">>,
       <<"A", "c", "t", "i", "v", "i", "t", "y", "L", "i", "s", "t">> >>

AttrVersion == <<"v", "e", "r", "s", "i", "o", "n">>

AttrIndex == <<"i", "n", "d", "e", "x">>

AttrDay == <<"d", "a", "y">>

\* The meta lookup that ends both branches of _infer_shape_from_example.
WithMeta(shape, root) ==
    LET m == CiFindChild(root, MetaNames)
    IN  [shape EXCEPT !.meta = IF m /= 0 THEN StripNs(root.children[m].tag)
                               ELSE None]

\* The days/items branch of _infer_shape_from_example.
WithDays(shape, root) ==
    LET d == CiFindChild(root, DaysNames)
        days == root.children[d]
        first_day == days.children[1]
        it == CiFindChild(first_day, ItemsNames)
        items == first_day.children[it]
        s1 == [shape EXCEPT !.days_tag = StripNs(days.tag)]
        s2 == [s1 EXCEPT !.day_tag = StripNs(first_day.tag),
                         !.day_index_attr =
                             IF AttrIndex \in DOMAIN first_day.attrib THEN AttrIndex
                             ELSE IF AttrDay \in DOMAIN first_day.attrib THEN AttrDay
                             ELSE @]
        s3 == [s2 EXCEPT !.items_tag = StripNs(items.tag)]
        s4 == [s3 EXCEPT !.item_tag = StripNs(items.children[1].tag)]
    IN  IF d = 0 THEN shape
        ELSE IF days.children = <<>> THEN s1
        ELSE IF it = 0 THEN s2
        ELSE IF items.children = <<>> THEN s3
        ELSE s4

\* The body of the try block of _infer_shape_from_example, on the root that
\* ET.parse returned.
InferFromRoot(root) ==
    LET s0 == [DefaultShape EXCEPT !.root = StripNs(root.tag),
                                   !.ns = root.tag.ns]
        s1 == IF AttrVersion \in DOMAIN root.attrib
              THEN [s0 EXCEPT !.version_value = root.attrib[AttrVersion]]
              ELSE s0
        t == CiFindChild(root, TimelineNames)
        timeline == root.children[t]
    IN  IF t /= 0 /\ timeline.children /= <<>>
          THEN WithMeta([s1 EXCEPT !.mode = ModeTimeline,
                                   !.timeline_tag = StripNs(timeline.tag),
                                   !.event_tag = StripNs(timeline.children[1].tag)],
                        root)
        ELSE WithMeta(WithDays(s1, root), root)

\* A faulty _infer_shape_from_example: a failure returns the shape as far as
\* it was filled when ET.parse raised, its meta container already unset.
InferShapeKeepsPartial(file) ==
    IF file.kind /= "ok" THEN [DefaultShape EXCEPT !.meta = None]
    ELSE InferFromRoot(file.content)

\* _infer_shape_from_example on an example file: ET.parse raises on a file
\* that cannot be read or is not well-formed, and every exception yields
\* SchemaShape().
InferShapeFromExample(file) ==
    IF file.kind /= "ok" THEN DefaultShape
    ELSE InferFromRoot(file.content)

------------------------------------------------------------------------------
(* The XML builder for a TravelPlan.                                       *)

\* q(name): the tag qualified with the shape's namespace, if it has one.
Q(s, name) == [ns |-> IF Truthy(s.ns) THEN s.ns ELSE None, name |-> name]

\* ET.SubElement(parent, q(name)).text = text
Leaf(s, name, text) == Element(Q(s, name), NoAttrib, text, <<>>)

\* A dict display {k1: v1, k2: v2}: the later key wins when they are equal.
Attrib2(k1, v1, k2, v2) == (k2 :> v2) @@ (k1 :> v1)

\* The fields go under a meta element when the shape names one, else directly
\* under the root.
UnderMeta(s, fields) ==
    IF Truthy(s.meta) THEN <<Element(Q(s, s.meta), NoAttrib, None, fields)>>
    ELSE fields

\* A faulty time_range: the evening falls through to the window of "other".
TimeRangeNoEvening(period) ==
    CASE period = <<"m", "o", "r", "n", "i", "n", "g">> -> <<<<"0", "9", ":", "0", "0">>, <<"1", "2", ":", "0", "0">>>>
      [] period = <<"a", "f", "t", "e", "r", "n", "o", "o", "n">> -> <<<<"1", "3", ":", "3", "0">>, <<"1", "7", ":", "0", "0">>>>
      [] OTHER -> <<<<"1", "0", ":", "0", "0">>, <<"1", "2", ":", "0", "0">>>>

\* time_range(period)
TimeRange(period) ==
    CASE period = <<"m", "o", "r", "n", "i", "n", "g">> -> <<<<"0", "9", ":", "0", "0">>, <<"1", "2", ":", "0", "0">>>>
      [] period = <<"a", "f", "t", "e", "r", "n", "o", "o", "n">> -> <<<<"1", "3", ":", "3", "0">>, <<"1", "7", ":", "0", "0">>>>
      [] period = <<"e", "v", "e", "n", "i", "n", "g">> -> <<<<"1", "8", ":", "3", "0">>, <<"2", "1", ":", "0", "0">>>>
      [] OTHER -> <<<<"1", "0", ":", "0", "0">>, <<"1", "2", ":", "0", "0">>>>

\* event_type(period)
EventType(period) ==
    IF period \in {<<"m", "o", "r", "n", "i", "n", "g">>, <<"a", "f", "t", "e", "r", "n", "o", "o", "n">>} THEN <<"a", "t", "t", "r", "a", "c", "t", "i", "o", "n">>
    ELSE IF period = <<"e", "v", "e", "n", "i", "n", "g">> THEN <<"d", "i", "n", "i", "n", "g">>
    ELSE <<"c", "u", "s", "t", "o", "m">>

\* str.isdigit() over the characters of the model.
IsDigit(x) == x /= <<>> /\ \A i \in 1..Len(x) : x[i] \in Digits

\* A faulty rest event: its id does not name the day.
RestEventPlainId(s, d) ==
    Element(Q(s, s.event_tag),
            Attrib2(s.event_id_attr, <<"r", "e", "s", "t">>,
                    s.event_type_attr, <<"r", "e", "s", "t">>),
            None,
            <<Element(Q(s, s.timeslot_tag), NoAttrib, None,
                      <<Leaf(s, s.timeslot_day, IntStr(d.index)),
                        Leaf(s, s.timeslot_start, <<"1", "0", ":", "0", "0">>)>>),
              Element(Q(s, s.activity_tag), NoAttrib, None,
                      <<Leaf(s, s.activity_title, <<"U81EA", "U7531", "U6D3B", "U52A8", "/", "U4F11", "U606F">>)>>
                      \o (IF Truthy(d.note)
                          THEN <<Leaf(s, s.activity_desc, d.note)>> ELSE <<>>))>>)

\* The event of a day without items: a rest event that carries the day's note.
RestEvent(s, d) ==
    Element(Q(s, s.event_tag),
            Attrib2(s.event_id_attr, <<"d">> \o IntStr(d.index) \o <<"-", "r", "e", "s", "t">>,
                    s.event_type_attr, <<"r", "e", "s", "t">>),
            None,
            <<Element(Q(s, s.timeslot_tag), NoAttrib, None,
                      <<Leaf(s, s.timeslot_day, IntStr(d.index)),
                        Leaf(s, s.timeslot_start, <<"1", "0", ":", "0", "0">>)>>),
              Element(Q(s, s.activity_tag), NoAttrib, None,
                      <<Leaf(s, s.activity_title, <<"U81EA", "U7531", "U6D3B", "U52A8", "/", "U4F11", "U606F">>)>>
                      \o (IF Truthy(d.note)
                          THEN <<Leaf(s, s.activity_desc, d.note)>> ELSE <<>>))>>)

\* The participants step of an item event: the SharedTransport element goes
\* into the child _ci_find_child finds under the name Participants when that
\* child is truthy (an Element without children is falsy), else into a new
\* Participants child.
WithSharedTransport(s, children, transport) ==
    LET shared == Leaf(s, <<"S", "h", "a", "r", "e", "d", "T", "r", "a", "n", "s", "p", "o", "r", "t">>, transport)
        f == CiFindChild([children |-> children], <<<<"P", "a", "r", "t", "i", "c", "i", "p", "a", "n", "t", "s">>>>)
    IN  IF f /= 0 /\ children[f].children /= <<>>
          THEN [children EXCEPT ![f].children = @ \o <<shared>>]
        ELSE children \o <<Element(Q(s, <<"P", "a", "r", "t", "i", "c", "i", "p", "a", "n", "t", "s">>), NoAttrib, None,
                                   <<shared>>)>>

\* The event of the idx-th item of day d.
ItemEvent(s, d, idx) ==
    LET it == d.items[idx]
        etype == EventType(it.period)
        cat == IF etype = <<"a", "t", "t", "r", "a", "c", "t", "i", "o", "n">> THEN <<"U666F", "U70B9">>
               ELSE IF etype = <<"d", "i", "n", "i", "n", "g">> THEN <<"U9910", "U996E">> ELSE <<"U6D3B", "U52A8">>
        ts == Element(Q(s, s.timeslot_tag), NoAttrib, None,
                      <<Leaf(s, s.timeslot_day, IntStr(d.index)),
                        Leaf(s, s.timeslot_start, TimeRange(it.period)[1]),
                        Leaf(s, s.timeslot_end, TimeRange(it.period)[2])>>
                      \o (IF Truthy(it.duration) /\ IsDigit(it.duration)
                          THEN <<Leaf(s, s.timeslot_duration, it.duration)>>
                          ELSE <<>>))
        act == Element(Q(s, s.activity_tag), NoAttrib, None,
                       <<Leaf(s, s.activity_title, it.title),
                         Leaf(s, s.activity_category, cat)>>
                       \o (IF Truthy(it.note)
                           THEN <<Leaf(s, s.activity_desc, it.note)>> ELSE <<>>))
    IN  Element(Q(s, s.event_tag),
                Attrib2(s.event_id_attr,
                        <<"d">> \o IntStr(d.index) \o <<"-">> \o IntStr(idx),
                        s.event_type_attr, etype),
                None,
                IF Truthy(it.transport)
                THEN WithSharedTransport(s, <<ts, act>>, it.transport)
                ELSE <<ts, act>>)

\* A faulty reading of the loop over the days: a day without items gives no
\* event.
DayEventsItemsOnly(s, d) ==
    [idx \in 1..Len(d.items) |-> ItemEvent(s, d, idx)]

\* The events of one day, and of the days from the k-th on.
DayEvents(s, d) ==
    IF d.items = <<>> THEN <<RestEvent(s, d)>>
    ELSE [idx \in 1..Len(d.items) |-> ItemEvent(s, d, idx)]

RECURSIVE TimelineEvents(_, _, _)
TimelineEvents(s, daily, k) ==
    IF k > Len(daily) THEN <<>>
    ELSE DayEvents(s, daily[k]) \o TimelineEvents(s, daily, k + 1)

\* The version attribute of the root.
RootAttrib(s) ==
    AttrVersion :> (IF Truthy(s.version_value) THEN s.version_value ELSE <<"1", ".", "0">>)

\* build_xml, timeline mode.
BuildTimeline(plan, s) ==
    LET fields ==
            <<Leaf(s, s.meta_title,
                   plan.destination \o <<" ">> \o IntStr(plan.days) \o <<"U5929", "U884C", "U7A0B">>),
              Leaf(s, s.summary,
                   IF Truthy(plan.summary) THEN plan.summary
                   ELSE <<"U504F", "U597D", "UFF1A">> \o plan.preferences \o <<"UFF1B", "U9884", "U7B97", "UFF1A">> \o plan.budget),
              Leaf(s, s.meta_total_days, IntStr(plan.days)),
              Element(Q(s, s.meta_destinations), NoAttrib, None,
                      <<Leaf(s, s.meta_city, plan.destination)>>),
              Leaf(s, s.meta_travel_style, plan.preferences),
              Element(Q(s, s.meta_budget), NoAttrib, None,
                      <<Leaf(s, s.meta_currency, <<"C", "N", "Y">>)>>)>>
    IN  Element(Q(s, s.root), RootAttrib(s), None,
                UnderMeta(s, fields)
                \o <<Element(Q(s, s.timeline_tag), NoAttrib, None,
                             TimelineEvents(s, plan.daily, 1))>>)

\* A faulty default mode: every field is written when it has a value and
\* left out when it has none, the day count at the root too.
DefaultFieldsIfValued(plan, s) ==
    (IF plan.destination /= <<>> THEN <<Leaf(s, s.destination, plan.destination)>> ELSE <<>>)
    \o (IF Truthy(s.days_count)
        THEN <<Leaf(s, s.days_count, IntStr(plan.days))>> ELSE <<>>)
    \o (IF plan.budget /= <<>> THEN <<Leaf(s, s.budget, plan.budget)>> ELSE <<>>)
    \o (IF plan.preferences /= <<>> THEN <<Leaf(s, s.preferences, plan.preferences)>> ELSE <<>>)
    \o (IF Truthy(plan.summary) THEN <<Leaf(s, s.summary, plan.summary)>> ELSE <<>>)
    \o (IF Truthy(plan.tips) THEN <<Leaf(s, s.tips, plan.tips)>> ELSE <<>>)

\* The meta fields of the default mode, in the order they are written.
DefaultFields(plan, s) ==
    <<Leaf(s, s.destination, plan.destination)>>
    \o (IF Truthy(s.meta) /\ Truthy(s.days_count)
        THEN <<Leaf(s, s.days_count, IntStr(plan.days))>> ELSE <<>>)
    \o <<Leaf(s, s.budget, plan.budget), Leaf(s, s.preferences, plan.preferences)>>
    \o (IF Truthy(plan.summary) THEN <<Leaf(s, s.summary, plan.summary)>> ELSE <<>>)
    \o (IF Truthy(plan.tips) THEN <<Leaf(s, s.tips, plan.tips)>> ELSE <<>>)

\* An optional child of an item element.
Opt(s, name, value) == IF Truthy(value) THEN <<Leaf(s, name, value)>> ELSE <<>>

\* A faulty item element: the cost is written under the duration tag.
ItemElementCostAsDuration(s, it) ==
    Element(Q(s, s.item_tag), s.period_attr :> it.period,
            None,
            <<Leaf(s, s.title, it.title)>>
            \o Opt(s, s.location, it.location)
            \o Opt(s, s.transport, it.transport)
            \o Opt(s, s.duration, it.duration)
            \o Opt(s, s.duration, it.cost)
            \o Opt(s, s.note, it.note))

\* The item element of the default mode.
ItemElement(s, it) ==
    Element(Q(s, s.item_tag), s.period_attr :> it.period,
            None,
            <<Leaf(s, s.title, it.title)>>
            \o Opt(s, s.location, it.location)
            \o Opt(s, s.transport, it.transport)
            \o Opt(s, s.duration, it.duration)
            \o Opt(s, s.cost, it.cost)
            \o Opt(s, s.note, it.note))

\* The day element of the default mode.
DayElement(s, d) ==
    Element(Q(s, s.day_tag), s.day_index_attr :> IntStr(d.index), None,
            Opt(s, s.note, d.note)
            \o <<Element(Q(s, s.items_tag), NoAttrib, None,
                         [k \in 1..Len(d.items) |-> ItemElement(s, d.items[k])])>>)

\* build_xml, default days/items mode.
BuildDefault(plan, s) ==
    Element(Q(s, s.root), RootAttrib(s), None,
            UnderMeta(s, DefaultFields(plan, s))
            \o <<Element(Q(s, s.days_tag), NoAttrib, None,
                         [k \in 1..Len(plan.daily) |-> DayElement(s, plan.daily[k])])>>)

\* build_xml(plan, shape); shape None stands for SchemaShape().
BuildXml(plan, s) ==
    IF s.mode = ModeTimeline THEN BuildTimeline(plan, s) ELSE BuildDefault(plan, s)

------------------------------------------------------------------------------
(* The embedded-JSON extractor.                                            *)

\* The text of a key of the structured plan.
KeyText(k) ==
    CASE k = "meta" -> <<"m", "e", "t", "a">>
      [] k = "title" -> <<"t", "i", "t", "l", "e">>
      [] k = "summary" -> <<"s", "u", "m", "m", "a", "r", "y">>
      [] k = "totalDays" -> <<"t", "o", "t", "a", "l", "D", "a", "y", "s">>
      [] k = "destinations" -> <<"d", "e", "s", "t", "i", "n", "a", "t", "i", "o", "n", "s">>
      [] k = "travelStyle" -> <<"t", "r", "a", "v", "e", "l", "S", "t", "y", "l", "e">>
      [] k = "participants" -> <<"p", "a", "r", "t", "i", "c", "i", "p", "a", "n", "t", "s">>
      [] k = "id" -> <<"i", "d">>
      [] k = "name" -> <<"n", "a", "m", "e">>
      [] k = "role" -> <<"r", "o", "l", "e">>
      [] k = "departureFrom" -> <<"d", "e", "p", "a", "r", "t", "u", "r", "e", "F", "r", "o", "m">>
      [] k = "budget" -> <<"b", "u", "d", "g", "e", "t">>
      [] k = "currency" -> <<"c", "u", "r", "r", "e", "n", "c", "y">>
      [] k = "totalEstimate" -> <<"t", "o", "t", "a", "l", "E", "s", "t", "i", "m", "a", "t", "e">>
      [] k = "perPerson" -> <<"p", "e", "r", "P", "e", "r", "s", "o", "n">>
      [] k = "timeline" -> <<"t", "i", "m", "e", "l", "i", "n", "e">>
      [] k = "type" -> <<"t", "y", "p", "e">>
      [] k = "day" -> <<"d", "a", "y">>
      [] k = "start" -> <<"s", "t", "a", "r", "t">>
      [] k = "end" -> <<"e", "n", "d">>
      [] k = "durationMinutes" -> <<"d", "u", "r", "a", "t", "i", "o", "n", "M", "i", "n", "u", "t", "e", "s">>
      [] k = "activity" -> <<"a", "c", "t", "i", "v", "i", "t", "y">>
      [] k = "description" -> <<"d", "e", "s", "c", "r", "i", "p", "t", "i", "o", "n">>
      [] k = "category" -> <<"c", "a", "t", "e", "g", "o", "r", "y">>
      [] k = "highlights" -> <<"h", "i", "g", "h", "l", "i", "g", "h", "t", "s">>
      [] k = "all" -> <<"a", "l", "l">>
      [] k = "personRefs" -> <<"p", "e", "r", "s", "o", "n", "R", "e", "f", "s">>
      [] k = "transport" -> <<"t", "r", "a", "n", "s", "p", "o", "r", "t">>
      [] k = "route" -> <<"r", "o", "u", "t", "e">>
      [] k = "sharedTransport" -> <<"s", "h", "a", "r", "e", "d", "T", "r", "a", "n", "s", "p", "o", "r", "t">>
      [] k = "locations" -> <<"l", "o", "c", "a", "t", "i", "o", "n", "s">>
      [] k = "address" -> <<"a", "d", "d", "r", "e", "s", "s">>
      [] k = "coordinates" -> <<"c", "o", "o", "r", "d", "i", "n", "a", "t", "e", "s">>
      [] k = "lat" -> <<"l", "a", "t">>
      [] k = "lng" -> <<"l", "n", "g">>
      [] k = "estimated" -> <<"e", "s", "t", "i", "m", "a", "t", "e", "d">>
      [] k = "breakdown" -> <<"b", "r", "e", "a", "k", "d", "o", "w", "n">>
      [] k = "person" -> <<"p", "e", "r", "s", "o", "n">>
      [] k = "amount" -> <<"a", "m", "o", "u", "n", "t">>
      [] k = "text" -> <<"t", "e", "x", "t">>

\* The JSON text of a value, without optional whitespace.
RECURSIVE JsonText(_)
RECURSIVE JsonJoin(_, _)
JsonJoin(texts, k) ==
    IF k > Len(texts) THEN <<>>
    ELSE (IF k > 1 THEN <<",">> ELSE <<>>) \o texts[k] \o JsonJoin(texts, k + 1)

JsonText(x) ==
    CASE TypeOf(x) = "null" -> <<"n", "u", "l", "l">>
      [] TypeOf(x) = "bool" -> IF ValueOf(x) THEN <<"t", "r", "u", "e">> ELSE <<"f", "a", "l", "s", "e">>
      [] TypeOf(x) = "num" -> IntStr(ValueOf(x))
      [] TypeOf(x) = "str" -> <<"\"">> \o ValueOf(x) \o <<"\"">>
      [] TypeOf(x) = "list" ->
           <<"[">> \o JsonJoin([k \in 1..Len(ValueOf(x)) |-> JsonText(ValueOf(x)[k])], 1) \o <<"]">>
      [] TypeOf(x) = "dict" ->
           <<"{">>
           \o JsonJoin([k \in 1..Len(ValueOf(x)) |->
                           <<"\"">> \o KeyText(ValueOf(x)[k][1]) \o <<"\"", ":">>
                           \o JsonText(ValueOf(x)[k][2])], 1)
           \o <<"}">>

\* The structured plans of the model: each is a meta object, or none, and a
\* timeline of at most MaxEvents events drawn from five events: the event of
\* the specification's example, one whose type and start are empty and whose
\* day is null, the empty event, one with every optional part, and one with
\* per-person references.
MaxEvents == 2

Event1 ==
    JDict(<<<<"type", JStr(<<"d", "i", "n", "i", "n", "g">>)>>, <<"day",
        JNum(1)>>, <<"start", JStr(<<"1", "8", ":", "0", "0">>)>>>>)

Event2 ==
    JDict(<<<<"type", JStr(<<>>)>>, <<"day", JNull>>, <<"start",
        JStr(<<>>)>>, <<"end", JStr(<<"2", "1", ":", "0", "0">>)>>,
        <<"activity", JDict(<<<<"title", JStr(<<"W", "a", "l",
        "k">>)>>>>)>>>>)

Event3 ==
    JDict(<<>>)

Event4 ==
    JDict(<<<<"id", JStr(<<"a", "1">>)>>, <<"type", JStr(<<"a", "t", "t",
        "r", "a", "c", "t", "i", "o", "n">>)>>, <<"day", JNum(0)>>,
        <<"start", JStr(<<"0", "9", ":", "0", "0">>)>>, <<"end", JStr(<<"1",
        "2", ":", "0", "0">>)>>, <<"durationMinutes", JNum(90)>>,
        <<"activity", JDict(<<<<"title", JStr(<<"L", "a", "k", "e">>)>>,
        <<"description", JStr(<<"B", "o", "a", "t">>)>>, <<"category",
        JStr(<<"n", "a", "t", "u", "r", "e">>)>>, <<"highlights",
        JList(<<JStr(<<"V", "i", "e", "w">>)>>)>>>>)>>, <<"participants",
        JDict(<<<<"all", JBool(TRUE)>>, <<"sharedTransport", JStr(<<"b",
        "u", "s">>)>>, <<"route", JStr(<<"R", "1">>)>>>>)>>, <<"locations",
        JList(<<JDict(<<<<"type", JStr(<<"p", "a", "r", "k">>)>>, <<"name",
        JStr(<<"W", "e", "s", "t">>)>>, <<"address", JStr(<<"R", "d", " ",
        "1">>)>>, <<"coordinates", JDict(<<<<"lat", JNum(30)>>, <<"lng",
        JNum(120)>>>>)>>>>)>>)>>, <<"budget", JDict(<<<<"estimated",
        JNum(100)>>, <<"category", JStr(<<"f", "u", "n">>)>>, <<"perPerson",
        JNum(50)>>, <<"breakdown", JList(<<JDict(<<<<"person", JStr(<<"p",
        "1">>)>>, <<"amount", JNum(50)>>, <<"text", JStr(<<"f", "e",
        "e">>)>>>>)>>)>>>>)>>>>)

Event5 ==
    JDict(<<<<"day", JNum(2)>>, <<"end", JNull>>, <<"participants",
        JDict(<<<<"personRefs", JList(<<JDict(<<<<"id", JStr(<<"p",
        "1">>)>>, <<"transport", JStr(<<"t", "a", "x", "i">>)>>, <<"route",
        JStr(<<"R", "2">>)>>>>)>>)>>>>)>>>>)

Meta1 ==
    JDict(<<<<"title", JStr(<<"X">>)>>>>)

Meta2 ==
    JDict(<<<<"destinations", JList(<<JStr(<<"A">>), JStr(<<"B">>)>>)>>>>)

Meta3 ==
    JDict(<<<<"title", JStr(<<>>)>>, <<"summary", JStr(<<"S">>)>>,
        <<"totalDays", JNum(2)>>, <<"destinations", JList(<<>>)>>,
        <<"travelStyle", JStr(<<"T">>)>>, <<"participants",
        JList(<<JDict(<<<<"id", JStr(<<"p", "1">>)>>, <<"name",
        JStr(<<"N">>)>>, <<"role", JStr(<<"l", "e", "a", "d">>)>>,
        <<"departureFrom", JStr(<<"H">>)>>>>)>>)>>, <<"budget",
        JDict(<<<<"currency", JStr(<<"C", "N", "Y">>)>>, <<"totalEstimate",
        JNum(0)>>, <<"perPerson", JNull>>>>)>>>>)

PlanEvents == {Event1, Event2, Event3, Event4, Event5}

PlanMetas == {<<>>, <<<<"meta", Meta1>>>>, <<<<"meta", Meta2>>>>, <<<<"meta", Meta3>>>>}

\* The plans of the model: every meta with every timeline of at most one
\* event, and the first meta with every timeline of at most MaxEvents events.
PlanDocs ==
    {JDict(m \o <<<<"timeline", JList(tl)>>>>) :
        m \in PlanMetas, tl \in UNION {[1..n -> PlanEvents] : n \in 0..1}}
    \cup {JDict(<<<<"meta", Meta1>>, <<"timeline", JList(tl)>>>>) :
              tl \in UNION {[1..n -> PlanEvents] : n \in 0..MaxEvents}}

\* The JSON text of each plan of the model.
PlanDocTexts == {<<JsonText(d), d>> : d \in PlanDocs}

\* json.loads(text): the plan whose JSON text this is; every other text the
\* model builds is no JSON document, and json.loads raises.
JsonLoads(text) ==
    LET D == {e \in PlanDocTexts : e[1] = text}
    IN  IF D = {} THEN [raised |-> TRUE, data |-> JNull]
        ELSE [raised |-> FALSE, data |-> (CHOOSE e \in D : TRUE)[2]]

Fence == <<"U0060", "U0060", "U0060">>

FenceJson == <<"U0060", "U0060", "U0060", "j", "s", "o", "n">>

\* re.search(r"```json\s*(\{[\s\S]*?\})\s*```", md) tried at offset o: after
\* the tag and greedy whitespace an opening brace at b; the lazy body ends at
\* the first closing brace that whitespace and a fence follow.  The result is
\* the set of the match's group bounds: empty, or the one pair <<b, e>> with
\* the group md[b:e].
JsonBlockAt(md, o) ==
    LET b == SkipClass(md, o + Len(FenceJson), WS)
        E == {e \in (b + 1)..(Len(md) - 1) :
                 /\ At(md, e) = "}"
                 /\ OccursAt(md, Fence, SkipClass(md, e + 1, WS))}
    IN  IF OccursAt(md, FenceJson, o) /\ At(md, b) = "{" /\ E /= {}
          THEN {<<b, Min(E) + 1>>}
        ELSE {}

\* A faulty _extract_plan_json: after a group that json.loads rejects the
\* search goes on, and the first match that loads is returned.
ExtractPlanJsonRetrying(md) ==
    LET O == {o \in 0..Len(md) :
                 /\ JsonBlockAt(md, o) /= {}
                 /\ \E g \in JsonBlockAt(md, o) : ~JsonLoads(Slice(md, g[1], g[2])).raised}
        g == CHOOSE g \in JsonBlockAt(md, Min(O)) : TRUE
    IN  IF O = {} THEN [found |-> FALSE, data |-> JNull]
        ELSE [found |-> TRUE, data |-> JsonLoads(Slice(md, g[1], g[2])).data]

\* _extract_plan_json: the leftmost match decides; its group is loaded, and a
\* group that json.loads rejects yields None like no match at all.
ExtractPlanJson(md) ==
    LET O == {o \in 0..Len(md) : JsonBlockAt(md, o) /= {}}
        g == CHOOSE g \in JsonBlockAt(md, Min(O)) : TRUE
        loaded == JsonLoads(Slice(md, g[1], g[2]))
    IN  IF O = {} \/ loaded.raised THEN [found |-> FALSE, data |-> JNull]
        ELSE [found |-> TRUE, data |-> loaded.data]

------------------------------------------------------------------------------
(* The XML builder for a structured plan.                                  *)

\* x or {} where a dict is read, x or [] where a list is iterated.
OrEmptyDict(x) == IF Truth(x) THEN x ELSE JDict(<<>>)

OrEmptyList(x) == IF Truth(x) THEN ValueOf(x) ELSE <<>>

\* A child written when the value is truthy, and when it is not None.
IfTruthy(s, name, x) == IF Truth(x) THEN <<Leaf(s, name, PyStr(x))>> ELSE <<>>

IfNotNone(s, name, x) == IF TypeOf(x) /= "null" THEN <<Leaf(s, name, PyStr(x))>> ELSE <<>>

\* attrib={"id": str(x)} if x else {}
IdAttrib(name, x) == IF Truth(x) THEN name :> PyStr(x) ELSE NoAttrib

\* The caller's values export_xml passes as fallback_meta.
FallbackMeta(destination, days, budget, preferences, summary) ==
    [destination |-> destination, totalDays |-> days, budget |-> budget,
     travelStyle |-> preferences, summary |-> summary]

\* The meta fields of build_xml_from_json, in the order they are written.
JsonMetaFields(s, meta, fb) ==
    LET title == IF Truth(Get(meta, "title")) THEN PyStr(Get(meta, "title"))
                 ELSE fb.destination \o <<" ">> \o IntStr(fb.totalDays) \o <<"U5929", "U884C", "U7A0B">>
        summary_text ==
            IF Truth(Get(meta, "summary")) THEN PyStr(Get(meta, "summary"))
            ELSE IF Truthy(fb.summary) THEN fb.summary
            ELSE <<"U504F", "U597D", "UFF1A">> \o fb.travelStyle \o <<"UFF1B", "U9884", "U7B97", "UFF1A">> \o fb.budget
        total_days == IF Truth(Get(meta, "totalDays")) THEN Get(meta, "totalDays")
                      ELSE JNum(fb.totalDays)
        \* (meta.get("destinations") or [destination]) if destination else []
        dests == IF fb.destination /= <<>>
                   THEN IF Truth(Get(meta, "destinations"))
                          THEN ValueOf(Get(meta, "destinations"))
                        ELSE <<JStr(fb.destination)>>
                 ELSE <<>>
        travel_style == IF Truth(Get(meta, "travelStyle")) THEN Get(meta, "travelStyle")
                        ELSE JStr(fb.travelStyle)
        participants == OrEmptyList(Get(meta, "participants"))
        person(p) ==
            Element(Q(s, <<"P", "e", "r", "s", "o", "n">>), IdAttrib(<<"i", "d">>, Get(p, "id")), None,
                    IfTruthy(s, <<"N", "a", "m", "e">>, Get(p, "name"))
                    \o IfTruthy(s, <<"R", "o", "l", "e">>, Get(p, "role"))
                    \o IfTruthy(s, <<"D", "e", "p", "a", "r", "t", "u", "r", "e", "F", "r", "o", "m">>, Get(p, "departureFrom")))
        budget_meta == OrEmptyDict(Get(meta, "budget"))
    IN  <<Leaf(s, <<"T", "i", "t", "l", "e">>, title)>>
        \o (IF summary_text /= <<>> THEN <<Leaf(s, <<"S", "u", "m", "m", "a", "r", "y">>, summary_text)>> ELSE <<>>)
        \o IfTruthy(s, <<"T", "o", "t", "a", "l", "D", "a", "y", "s">>, total_days)
        \o (IF dests /= <<>>
            THEN <<Element(Q(s, <<"D", "e", "s", "t", "i", "n", "a", "t", "i", "o", "n", "s">>), NoAttrib, None,
                           [k \in 1..Len(dests) |-> Leaf(s, <<"C", "i", "t", "y">>, PyStr(dests[k]))])>>
            ELSE <<>>)
        \o IfTruthy(s, <<"T", "r", "a", "v", "e", "l", "S", "t", "y", "l", "e">>, travel_style)
        \o (IF participants /= <<>>
            THEN <<Element(Q(s, <<"P", "a", "r", "t", "i", "c", "i", "p", "a", "n", "t", "s">>), NoAttrib, None,
                           [k \in 1..Len(participants) |-> person(participants[k])])>>
            ELSE <<>>)
        \o (IF \E k \in {"currency", "totalEstimate", "perPerson"} : HasKey(budget_meta, k)
            THEN <<Element(Q(s, <<"B", "u", "d", "g", "e", "t">>), NoAttrib, None,
                           IfTruthy(s, <<"C", "u", "r", "r", "e", "n", "c", "y">>, Get(budget_meta, "currency"))
                           \o IfNotNone(s, <<"T", "o", "t", "a", "l", "E", "s", "t", "i", "m", "a", "t", "e">>, Get(budget_meta, "totalEstimate"))
                           \o IfNotNone(s, <<"P", "e", "r", "P", "e", "r", "s", "o", "n">>, Get(budget_meta, "perPerson")))>>
            ELSE <<>>)

\* A faulty time slot: the end child is written without the test of its
\* value.
JsonTimeSlotAlwaysEnd(s, evd) ==
    Element(Q(s, s.timeslot_tag), NoAttrib, None,
            IfNotNone(s, s.timeslot_day, Get(evd, "day"))
            \o IfTruthy(s, s.timeslot_start, Get(evd, "start"))
            \o <<Leaf(s, s.timeslot_end, PyStr(Get(evd, "end")))>>
            \o IfNotNone(s, s.timeslot_duration, Get(evd, "durationMinutes")))

\* The time-slot element of a JSON event.
JsonTimeSlot(s, evd) ==
    Element(Q(s, s.timeslot_tag), NoAttrib, None,
            IfNotNone(s, s.timeslot_day, Get(evd, "day"))
            \o IfTruthy(s, s.timeslot_start, Get(evd, "start"))
            \o IfTruthy(s, s.timeslot_end, Get(evd, "end"))
            \o IfNotNone(s, s.timeslot_duration, Get(evd, "durationMinutes")))

\* The activity element of a JSON event.
JsonActivity(s, evd) ==
    LET act == OrEmptyDict(Get(evd, "activity"))
        hl == OrEmptyList(Get(act, "highlights"))
    IN  Element(Q(s, s.activity_tag), NoAttrib, None,
                IfTruthy(s, s.activity_title, Get(act, "title"))
                \o IfTruthy(s, s.activity_desc, Get(act, "description"))
                \o IfTruthy(s, s.activity_category, Get(act, "category"))
                \o (IF hl /= <<>>
                    THEN <<Element(Q(s, <<"H", "i", "g", "h", "l", "i", "g", "h", "t", "s">>), NoAttrib, None,
                                   [k \in 1..Len(hl) |-> Leaf(s, <<"I", "t", "e", "m">>, PyStr(hl[k]))])>>
                    ELSE <<>>))

\* The participants element of a JSON event, if any.
JsonParticipants(s, evd) ==
    LET parts == OrEmptyDict(Get(evd, "participants"))
        prs == OrEmptyList(Get(parts, "personRefs"))
        ref(pr) ==
            Element(Q(s, <<"P", "e", "r", "s", "o", "n", "R", "e", "f">>), IdAttrib(<<"i", "d">>, Get(pr, "id")), None,
                    IfTruthy(s, <<"T", "r", "a", "n", "s", "p", "o", "r", "t">>, Get(pr, "transport"))
                    \o IfTruthy(s, <<"R", "o", "u", "t", "e">>, Get(pr, "route")))
    IN  IF ValueOf(parts) = <<>> THEN <<>>
        ELSE <<Element(Q(s, <<"P", "a", "r", "t", "i", "c", "i", "p", "a", "n", "t", "s">>),
                       IF Truth(Get(parts, "all")) THEN <<"a", "l", "l">> :> <<"t", "r", "u", "e">> ELSE NoAttrib,
                       None,
                       IF prs /= <<>> THEN [k \in 1..Len(prs) |-> ref(prs[k])]
                       ELSE IfTruthy(s, <<"S", "h", "a", "r", "e", "d", "T", "r", "a", "n", "s", "p", "o", "r", "t">>, Get(parts, "sharedTransport"))
                            \o IfTruthy(s, <<"R", "o", "u", "t", "e">>, Get(parts, "route")))>>

\* The locations element of a JSON event, if any.
JsonLocations(s, evd) ==
    LET locs == OrEmptyList(Get(evd, "locations"))
        coords(loc) == OrEmptyDict(Get(loc, "coordinates"))
        latlng(c) ==
            (IF TypeOf(Get(c, "lng")) /= "null" THEN <<"l", "n", "g">> :> PyStr(Get(c, "lng")) ELSE NoAttrib)
            @@ (IF TypeOf(Get(c, "lat")) /= "null" THEN <<"l", "a", "t">> :> PyStr(Get(c, "lat")) ELSE NoAttrib)
        location(loc) ==
            Element(Q(s, <<"L", "o", "c", "a", "t", "i", "o", "n">>), IdAttrib(<<"t", "y", "p", "e">>, Get(loc, "type")), None,
                    IfTruthy(s, <<"N", "a", "m", "e">>, Get(loc, "name"))
                    \o IfTruthy(s, <<"A", "d", "d", "r", "e", "s", "s">>, Get(loc, "address"))
                    \o (IF HasKey(coords(loc), "lat") \/ HasKey(coords(loc), "lng")
                        THEN <<Element(Q(s, <<"C", "o", "o", "r", "d", "i", "n", "a", "t", "e", "s">>), latlng(coords(loc)), None, <<>>)>>
                        ELSE <<>>))
    IN  IF locs = <<>> THEN <<>>
        ELSE <<Element(Q(s, <<"L", "o", "c", "a", "t", "i", "o", "n", "s">>), NoAttrib, None,
                       [k \in 1..Len(locs) |-> location(locs[k])])>>

\* The budget element of a JSON event, if any.
JsonEventBudget(s, evd) ==
    LET bev == OrEmptyDict(Get(evd, "budget"))
        bd == OrEmptyList(Get(bev, "breakdown"))
        line(item) ==
            Element(Q(s, <<"I", "t", "e", "m">>),
                    (IF TypeOf(Get(item, "amount")) /= "null"
                     THEN <<"a", "m", "o", "u", "n", "t">> :> PyStr(Get(item, "amount")) ELSE NoAttrib)
                    @@ (IF Truth(Get(item, "person"))
                        THEN <<"p", "e", "r", "s", "o", "n">> :> PyStr(Get(item, "person")) ELSE NoAttrib),
                    IF Truth(Get(item, "text")) THEN PyStr(Get(item, "text")) ELSE <<>>,
                    <<>>)
    IN  IF ValueOf(bev) = <<>> THEN <<>>
        ELSE <<Element(Q(s, <<"B", "u", "d", "g", "e", "t">>), NoAttrib, None,
                       IfNotNone(s, <<"E", "s", "t", "i", "m", "a", "t", "e", "d">>, Get(bev, "estimated"))
                       \o IfTruthy(s, <<"C", "a", "t", "e", "g", "o", "r", "y">>, Get(bev, "category"))
                       \o IfNotNone(s, <<"P", "e", "r", "P", "e", "r", "s", "o", "n">>, Get(bev, "perPerson"))
                       \o (IF bd /= <<>>
                           THEN <<Element(Q(s, <<"B", "r", "e", "a", "k", "d", "o", "w", "n">>), NoAttrib, None,
                                          [k \in 1..Len(bd) |-> line(bd[k])])>>
                           ELSE <<>>))>>

\* The i-th event of the JSON timeline.
JsonEvent(s, evd, i) ==
    LET etype == IF Truth(Get(evd, "type")) THEN PyStr(Get(evd, "type")) ELSE <<"c", "u", "s", "t", "o", "m">>
        eid == IF Truth(Get(evd, "id")) THEN PyStr(Get(evd, "id")) ELSE <<"e">> \o IntStr(i)
    IN  Element(Q(s, s.event_tag),
                Attrib2(s.event_id_attr, eid, s.event_type_attr, etype), None,
                <<JsonTimeSlot(s, evd), JsonActivity(s, evd)>>
                \o JsonParticipants(s, evd)
                \o JsonLocations(s, evd)
                \o JsonEventBudget(s, evd))

\* A faulty build_xml_from_json that follows the shape's mode: outside the
\* timeline mode it writes a days container, one day element with an items
\* container per event.
BuildXmlFromJsonByMode(data, fb, s) ==
    LET meta == OrEmptyDict(Get(data, "meta"))
        events == OrEmptyList(Get(data, "timeline"))
    IN  Element(Q(s, s.root), RootAttrib(s), None,
                UnderMeta(s, JsonMetaFields(s, meta, fb))
                \o (IF s.mode = ModeTimeline
                      THEN <<Element(Q(s, s.timeline_tag), NoAttrib, None,
                                     [i \in 1..Len(events) |-> JsonEvent(s, events[i], i)])>>
                    ELSE <<Element(Q(s, s.days_tag), NoAttrib, None,
                                   [i \in 1..Len(events) |->
                                       Element(Q(s, s.day_tag), s.day_index_attr :> IntStr(i), None,
                                               <<Element(Q(s, s.items_tag), NoAttrib, None, <<>>)>>)])>>))

\* build_xml_from_json(data, fallback_meta, shape): the timeline container is
\* written whatever the shape's mode.
BuildXmlFromJson(data, fb, s) ==
    LET meta == OrEmptyDict(Get(data, "meta"))
        events == OrEmptyList(Get(data, "timeline"))
    IN  Element(Q(s, s.root), RootAttrib(s), None,
                UnderMeta(s, JsonMetaFields(s, meta, fb))
                \o <<Element(Q(s, s.timeline_tag), NoAttrib, None,
                             [i \in 1..Len(events) |-> JsonEvent(s, events[i], i)])>>)

------------------------------------------------------------------------------
(* export_xml and save_xml.                                                *)

\* A path argument and what the file system holds there: "none" is the
\* argument None, "missing" a path where no file is, "unreadable" a file that
\* open() refuses, "malformed" a file whose text is not JSON (not XML, for an
\* example), "ok" a file with the parsed content.
File(kind, content) == [kind |-> kind, content |-> content]

\* path and os.path.isfile(path)
IsFile(f) == f.kind \in {"unreadable", "malformed", "ok"}

\* The Optional[SchemaShape] of export_xml.
NoShape == [some |-> FALSE, shape |-> DefaultShape]

SomeShape(s) == [some |-> TRUE, shape |-> s]

\* The try block of export_xml: open() and json.load raise on a map file that
\* is unreadable or malformed, _shape_from_map may raise, and every exception
\* leaves shape = None.
ResolveShape(schema_example, schema_map) ==
    IF IsFile(schema_map)
      THEN IF schema_map.kind /= "ok" THEN NoShape
           ELSE LET r == ShapeFromMap(schema_map.content)
                IN  IF r.raised THEN NoShape ELSE SomeShape(r.shape)
    ELSE IF IsFile(schema_example)
      THEN SomeShape(InferShapeFromExample(schema_example))
    ELSE NoShape

\* s = shape or SchemaShape(), the first line of both builders.
ShapeOrDefault(r) == IF r.some THEN r.shape ELSE DefaultShape

\* ET.register_namespace(prefix, uri) on the registry _namespace_map, a set of
\* <<uri, prefix>>: the entries with this uri or this prefix are deleted
\* before the new one is stored.
RegisterNamespace(map, prefix, uri) ==
    {e \in map : e[1] /= uri /\ e[2] /= prefix} \cup {<<uri, prefix>>}

\* The prefix ElementTree.write gives a namespace: the registered one, or
\* the generated "ns0" (every element of a tree the builders make has the
\* namespace of the root, so no second prefix is generated).
PrefixOf(map, uri) ==
    IF \E e \in map : e[1] = uri THEN (CHOOSE e \in map : e[1] = uri)[2]
    ELSE <<"n", "s", "0">>

\* The qualified names ElementTree.write prints: [prefix, name], the prefix
\* None for a tag without namespace and "" under the default namespace.
RECURSIVE Qualified(_, _)
Qualified(map, e) ==
    [tag |-> [prefix |-> IF e.tag.ns = None THEN None ELSE PrefixOf(map, e.tag.ns),
              name |-> e.tag.name],
     attrib |-> e.attrib, text |-> e.text,
     children |-> [k \in 1..Len(e.children) |-> Qualified(map, e.children[k])]]

\* tree.write(path, encoding="utf-8", xml_declaration=True): the declaration,
\* the xmlns declarations on the root and the qualified elements.
Serialize(map, root) ==
    [declaration |-> TRUE,
     xmlns |-> IF root.tag.ns = None THEN {}
               ELSE {<<PrefixOf(map, root.tag.ns), root.tag.ns>>},
     root |-> Qualified(map, root)]

\* The arguments of one call of export_xml.
Args(destination, days, budget, preferences, markdown_plan, summary, tips, schema_example, schema_map) ==
    [destination |-> destination, days |-> days, budget |-> budget,
     preferences |-> preferences, markdown_plan |-> markdown_plan,
     summary |-> summary, tips |-> tips, schema_example |-> schema_example,
     schema_map |-> schema_map]


------------------------------------------------------------------------------
(* The inputs of the model.                                                *)

\* Example documents as ET.parse loads them.
ExampleTimeline ==
    Element([ns |-> <<"u", "r", "n", ":", "a">>, name |-> <<"T", "r", "a",
        "v", "e", "l", "P", "l", "a", "n">>], (<<"v", "e", "r", "s", "i",
        "o", "n">> :> <<"2", ".", "1">>), <<"None">>, <<Element([ns |->
        <<"u", "r", "n", ":", "a">>, name |-> <<"M", "e", "t", "a">>],
        NoAttrib, <<"None">>, <<Element([ns |-> <<"u", "r", "n", ":", "a">>,
        name |-> <<"T", "i", "t", "l", "e">>], NoAttrib, <<"t">>, <<>>)>>),
        Element([ns |-> <<"u", "r", "n", ":", "a">>, name |-> <<"T", "i",
        "m", "e", "l", "i", "n", "e">>], NoAttrib, <<"None">>, <<Element([ns
        |-> <<"u", "r", "n", ":", "a">>, name |-> <<"E", "v", "e", "n",
        "t">>], (<<"d", "a", "y">> :> <<"1">>), <<"None">>, <<>>)>>)>>)

ExampleDays ==
    Element([ns |-> <<"None">>, name |-> <<"T", "r", "i", "p">>], NoAttrib,
        <<"None">>, <<Element([ns |-> <<"None">>, name |-> <<"I", "n", "f",
        "o">>], NoAttrib, <<"None">>, <<>>), Element([ns |-> <<"None">>,
        name |-> <<"S", "c", "h", "e", "d", "u", "l", "e">>], NoAttrib,
        <<"None">>, <<Element([ns |-> <<"None">>, name |-> <<"J", "o", "u",
        "r">>], (<<"d", "a", "y">> :> <<"1">>), <<"None">>, <<Element([ns
        |-> <<"None">>, name |-> <<"P", "l", "a", "n">>], NoAttrib,
        <<"None">>, <<Element([ns |-> <<"None">>, name |-> <<"S", "t", "o",
        "p">>], NoAttrib, <<"None">>, <<>>)>>)>>)>>)>>)

ExampleEmptyTimeline ==
    Element([ns |-> <<"u", "r", "n", ":", "b">>, name |-> <<"V", "o", "y",
        "a", "g", "e">>], NoAttrib, <<"None">>, <<Element([ns |-> <<"u",
        "r", "n", ":", "b">>, name |-> <<"T", "i", "m", "e", "l", "i", "n",
        "e">>], NoAttrib, <<"None">>, <<>>), Element([ns |-> <<"u", "r",
        "n", ":", "b">>, name |-> <<"D", "a", "y", "s">>], NoAttrib,
        <<"None">>, <<>>)>>)

ExampleTwoDays ==
    Element([ns |-> <<"None">>, name |-> <<"p", "l", "a", "n">>], (<<"v",
        "e", "r", "s", "i", "o", "n">> :> <<"3">>), <<"None">>,
        <<Element([ns |-> <<"None">>, name |-> <<"D", "a", "y", "s">>],
        NoAttrib, <<"None">>, <<Element([ns |-> <<"None">>, name |->
        <<"a">>], NoAttrib, <<"None">>, <<>>)>>), Element([ns |->
        <<"None">>, name |-> <<"d", "a", "y", "s">>], NoAttrib, <<"None">>,
        <<Element([ns |-> <<"None">>, name |-> <<"d", "a", "y">>], (<<"i",
        "n", "d", "e", "x">> :> <<"1">>), <<"None">>, <<Element([ns |->
        <<"None">>, name |-> <<"i", "t", "e", "m", "s">>], NoAttrib,
        <<"None">>, <<>>)>>)>>)>>)

NoTree == Element([ns |-> None, name |-> <<>>], NoAttrib, None, <<>>)

\* <Plan><Timeline><Event/></Timeline><timeline/></Plan>
ExampleTwoTimelines ==
    Element([ns |-> <<"None">>, name |-> <<"P", "l", "a", "n">>], NoAttrib, <<"None">>,
        <<Element([ns |-> <<"None">>, name |-> <<"T", "i", "m", "e", "l", "i", "n", "e">>],
                  NoAttrib, <<"None">>,
                  <<Element([ns |-> <<"None">>, name |-> <<"E", "v", "e", "n", "t">>],
                            NoAttrib, <<"None">>, <<>>)>>),
          Element([ns |-> <<"None">>, name |-> <<"t", "i", "m", "e", "l", "i", "n", "e">>],
                  NoAttrib, <<"None">>, <<>>)>>)

ExampleFiles ==
    {File(k, NoTree) : k \in {"none", "missing", "unreadable", "malformed"}}
    \cup {File("ok", x) : x \in {ExampleTimeline, ExampleDays, ExampleEmptyTimeline, ExampleTwoDays,
                                  ExampleTwoTimelines}}

\* Map documents as json.load loads them.
MapRename ==
    JDict(<<<<"root", JStr(<<"I", "t", "i", "n", "e", "r", "a", "r",
        "y">>)>>, <<"day_tag", JStr(<<"J", "o", "u", "r">>)>>>>)

MapUnknown ==
    JDict(<<<<"root", JStr(<<"I", "t", "i", "n", "e", "r", "a", "r",
        "y">>)>>, <<"bogus", JStr(<<"x">>)>>, <<"version_value",
        JNum(2)>>>>)

MapTimeline ==
    JDict(<<<<"mode", JStr(<<"t", "i", "m", "e", "l", "i", "n", "e">>)>>,
        <<"ns", JStr(<<"u", "r", "n", ":", "m">>)>>>>)

MapNoMeta ==
    JDict(<<<<"meta", JStr(<<>>)>>>>)

MapNoCount ==
    JDict(<<<<"days_count", JStr(<<>>)>>>>)

MapClass ==
    JDict(<<<<"root", JStr(<<"I", "t", "i", "n", "e", "r", "a", "r",
        "y">>)>>, <<"__class__", JStr(<<"x">>)>>>>)

MapDoc ==
    JDict(<<<<"__doc__", JStr(<<"x">>)>>, <<"day_tag", JStr(<<"J", "o", "u",
        "r">>)>>>>)

MapList ==
    JList(<<JStr(<<"r", "o", "o", "t">>)>>)

MapEmpty ==
    JDict(<<>>)

MapFiles ==
    {File(k, JNull) : k \in {"none", "missing", "unreadable", "malformed"}}
    \cup {File("ok", x) : x \in {MapRename, MapUnknown, MapTimeline, MapNoMeta, MapNoCount, MapClass,
                                  MapDoc, MapList, MapEmpty}}

\* Lines of markdown: headings of days in and out of range, and a bullet.
LineDay1 ==
    <<"D", "a", "y", " ", "1">>

LineDay2 ==
    <<"#", " ", "U7B2C", "2", "U5929", " ", "U6E56">>

LineDay3 ==
    <<"D", "3", ":", " ", "x">>

LineDay0 ==
    <<"D", "a", "y", " ", "0">>

LineDay9 ==
    <<"d", "a", "y", " ", "9">>

LineMorning ==
    <<"-", " ", "U4E0A", "U5348", "UFF1A", "U897F", "U6E56", "UFF08",
        "U6B65", "U884C", "2", "U5C0F", "U65F6", "UFF09">>

PlanLines == {LineDay1, LineDay2, LineDay3, LineDay0, LineDay9, LineMorning}

\* The texts of at most n lines, each ended by a newline.
RECURSIVE LinesUpTo(_)
LinesUpTo(n) ==
    IF n = 0 THEN {<<>>}
    ELSE LET S == LinesUpTo(n - 1)
         IN  S \cup {md \o l \o <<"\n">> : md \in S, l \in PlanLines}

HeuristicMd ==
    <<"D", "a", "y", " ", "1", "\n", "-", " ", "U4E0A", "U5348", "UFF1A",
        "U897F", "U6E56", "UFF08", "U6B65", "U884C", "2", "U5C0F", "U65F6",
        "UFF09", "\n", "D", "a", "y", " ", "2", "\n", "-", " ", "U665A",
        "U4E0A", " ", "d", "i", "n", "n", "e", "r", "\n">>

PrefixMd ==
    <<"D", "a", "y", " ", "1", "\n", "-", " ", "U4E0A", "U5348", " ", "w",
        "a", "l", "k", "\n">>

BodyUnclosed ==
    <<"{", "b", "a", "d">>

BodyList ==
    <<"[", "1">>

BodyTrailing ==
    <<"{", "\"", "a", "\"", ":", "1", "}", " ", "x">>

\* A fenced json block with this body.
Block(body) == FenceJson \o <<"\n">> \o body \o <<"\n">> \o Fence \o <<"\n">>


\* Bounds: the days asked for and the lines of a markdown plan.
MaxDays == 3

MaxLines == 3

Rome == <<"R", "o", "m", "e">>

Mid == <<"m", "i", "d">>

Food == <<"f", "o", "o", "d">>

NoExample == File("none", NoTree)

NoMap == File("none", JNull)

\* A plan with its meta and two events, and one with the empty timeline.
SampleDoc == JDict(<<<<"meta", Meta1>>, <<"timeline", JList(<<Event1, Event4>>)>>>>)

OtherDoc == JDict(<<<<"timeline", JList(<<>>)>>>>)

\* Plans in prose: every text of at most MaxLines lines, for 1..MaxDays days.
ParseInputs ==
    {Args(Rome, d, Mid, Food, md, None, None, NoExample, NoMap) :
        d \in 1..MaxDays, md \in LinesUpTo(MaxLines)}

\* Every pair of a map file and an example file, for a plan in prose and for
\* a structured plan.
ShapeInputs ==
    {Args(Rome, 2, Mid, Food, md, None, None, ex, mp) :
        md \in {HeuristicMd, PrefixMd \o Block(JsonText(SampleDoc))},
        ex \in ExampleFiles, mp \in MapFiles}

\* Markdown with fenced json blocks: every plan of the model after a heading
\* in prose; a malformed first block alone, before a well-formed block and
\* before prose; two well-formed blocks.
MalformedBodies == {BodyUnclosed, BodyList, BodyTrailing}

JsonMarkdowns ==
    {PrefixMd \o Block(e[1]) : e \in PlanDocTexts}
    \cup {Block(b) \o rest : b \in MalformedBodies,
                             rest \in {<<>>, Block(JsonText(SampleDoc)), HeuristicMd}}
    \cup {Block(JsonText(SampleDoc)) \o Block(JsonText(OtherDoc))}

JsonInputs ==
    {Args(dest, 2, Mid, Food, md, None, None, NoExample, mp) :
        dest \in {Rome, <<>>}, md \in JsonMarkdowns,
        mp \in {NoMap, File("ok", MapTimeline), File("ok", MapNoMeta)}}

\* The meta values present, empty and None, under the shapes with and without
\* a meta container and a day count.
MetaInputs ==
    {Args(dest, d, b, p, md, s, t, NoExample, mp) :
        dest \in {Rome, <<>>}, d \in 1..MaxDays, b \in {Mid, <<>>},
        p \in {Food, <<>>}, md \in {HeuristicMd, <<>>},
        s \in {None, <<>>, <<"S">>}, t \in {None, <<>>, <<"T">>},
        mp \in {NoMap, File("ok", MapNoMeta), File("ok", MapNoCount), File("ok", MapTimeline)}}

\* Exports under no namespace and under three different ones.
ConcInputs ==
    {Args(Rome, 2, Mid, Food, HeuristicMd, None, None, ex, mp) :
        ex \in {NoExample, File("ok", ExampleTimeline), File("ok", ExampleEmptyTimeline)},
        mp \in {NoMap, File("ok", MapTimeline)}}

------------------------------------------------------------------------------
(* The program: main(), plan_once and the callers of export_xml and       *)
(* save_xml in one process.                                                *)

Callers == {"A", "B"}

VARIABLES
    nsmap,      \* ElementTree's registry _namespace_map, one for the process
    pc,         \* per caller: "idle", "built" after export_xml, "saved"
    args,       \* per caller: the arguments of its call of export_xml
    shape,      \* per caller: the Optional[SchemaShape] export_xml resolved
    plan_json,  \* per caller: the result of _extract_plan_json
    daily,      \* per caller: the result of parse_markdown_days, if called
    tree,       \* per caller: the root of the tree export_xml returned
    out,        \* per caller: the document save_xml wrote
    session     \* main(): its position, the call of plan_once and its reports

vars == <<nsmap, pc, args, shape, plan_json, daily, tree, out, session>>

NoArgs == Args(<<>>, 0, <<>>, <<>>, <<>>, None, None, NoExample, NoMap)

NoJson == [found |-> FALSE, data |-> JNull]

NoOut == [declaration |-> FALSE, xmlns |-> {}, root |-> Qualified({}, NoTree)]

\* main() before its first step: the position, the --once flag, the inputs
\* and the result of the call of plan_once, the markdown copy ("pending",
\* "written" or "failed"), the XML export ("pending", "written" or "failed"),
\* the lines plan_once printed about its files, and the value it returned.
NoSession ==
    [step |-> "main", once |-> FALSE, change |-> <<>>, call |-> NoArgs,
     md |-> "pending", xml |-> "pending", reports |-> {}, returned |-> None]

Init ==
    /\ nsmap = {}
    /\ pc = [c \in Callers |-> "idle"]
    /\ args = [c \in Callers |-> NoArgs]
    /\ shape = [c \in Callers |-> NoShape]
    /\ plan_json = [c \in Callers |-> NoJson]
    /\ daily = [c \in Callers |-> <<>>]
    /\ tree = [c \in Callers |-> NoTree]
    /\ out = [c \in Callers |-> NoOut]
    /\ session = NoSession

\* export_xml(**a): the shape is resolved, the markdown searched for a json
\* block, and the tree built from the block if one loads and from the parsed
\* prose if not; the builder registers the shape's namespace.
DoExportXml(c, a) ==
    /\ pc[c] = "idle"
    /\ Bind(ResolveShape(a.schema_example, a.schema_map), LAMBDA r :
       Bind(ShapeOrDefault(r), LAMBDA s :
       Bind(ExtractPlanJson(a.markdown_plan), LAMBDA pj :
       Bind(IF pj.found THEN <<>> ELSE ParseMarkdownDays(a.markdown_plan, a.days), LAMBDA d :
           /\ pc' = [pc EXCEPT ![c] = "built"]
           /\ args' = [args EXCEPT ![c] = a]
           /\ shape' = [shape EXCEPT ![c] = r]
           /\ plan_json' = [plan_json EXCEPT ![c] = pj]
           /\ daily' = [daily EXCEPT ![c] = d]
           /\ tree' = [tree EXCEPT ![c] =
                         IF pj.found
                           THEN BuildXmlFromJson(pj.data,
                                    FallbackMeta(a.destination, a.days, a.budget,
                                                 a.preferences, a.summary), s)
                         ELSE BuildXml(TravelPlan(a.destination, a.days, a.budget,
                                                  a.preferences, a.summary, a.tips, d), s)]
           /\ nsmap' = IF Truthy(s.ns) THEN RegisterNamespace(nsmap, <<>>, s.ns)
                       ELSE nsmap
           /\ UNCHANGED out))))

\* A caller other than main() calls export_xml.
ExportXml(c, a) == DoExportXml(c, a) /\ UNCHANGED session

\* save_xml(tree, path): the tree is written under the registry as it is now.
DoSaveXml(c) ==
    /\ pc[c] = "built"
    /\ pc' = [pc EXCEPT ![c] = "saved"]
    /\ out' = [out EXCEPT ![c] = Serialize(nsmap, tree[c])]
    /\ UNCHANGED <<nsmap, args, shape, plan_json, daily, tree>>

SaveXml(c) == DoSaveXml(c) /\ UNCHANGED session

\* The caller returns and its locals are gone.
DoReturn(c) ==
    /\ pc' = [pc EXCEPT ![c] = "idle"]
    /\ args' = [args EXCEPT ![c] = NoArgs]
    /\ shape' = [shape EXCEPT ![c] = NoShape]
    /\ plan_json' = [plan_json EXCEPT ![c] = NoJson]
    /\ daily' = [daily EXCEPT ![c] = <<>>]
    /\ tree' = [tree EXCEPT ![c] = NoTree]
    /\ out' = [out EXCEPT ![c] = NoOut]
    /\ UNCHANGED nsmap

Return(c) == pc[c] = "saved" /\ DoReturn(c) /\ UNCHANGED session

\* The callers in C, with arguments from I.
NextOver(C, I) ==
    \E c \in C :
        \/ \E a \in I : ExportXml(c, a)
        \/ SaveXml(c)
        \/ Return(c)

\* One caller at a time, as the loop of main() calls plan_once.
Next == NextOver({"A"}, ParseInputs)

Spec == Init /\ [][Next]_vars

SpecShape == Init /\ [][NextOver({"A"}, ShapeInputs)]_vars

SpecJson == Init /\ [][NextOver({"A"}, JsonInputs)]_vars

SpecMeta == Init /\ [][NextOver({"A"}, MetaInputs)]_vars

\* Two callers in one process, their calls interleaved.
SpecConc == Init /\ [][NextOver(Callers, ConcInputs)]_vars


------------------------------------------------------------------------------
(* Properties.                                                             *)

\* The caller's call of export_xml has returned.
Built(c) == pc[c] /= "idle"

\* The day numbers of the headings of the caller's markdown.
HeadingNums(c) ==
    LET parts == HeadingParts(args[c].markdown_plan)
    IN  [k \in 1..Len(parts) |-> parts[k].num]

\* C1: for every days >= 1 and every markdown text, parse_markdown_days
\* returns exactly `days` DayPlans whose indexes are 1, 2, ..., days in that
\* order, whatever headings the markdown has (none, fewer, more, out of range
\* or repeated).
C1_DaysIndexed ==
    \A c \in Callers :
        Built(c) /\ ~plan_json[c].found =>
            /\ args[c].days >= 1
            /\ Len(daily[c]) = args[c].days
            /\ \A i \in 1..Len(daily[c]) : daily[c][i].index = i

\* C1 at work: three days asked for, and a markdown whose headings repeat a
\* day, name a day out of range and leave days without a heading.
C1_Witness ==
    /\ pc["A"] = "built"
    /\ args["A"].days = 3
    /\ LET nums == HeadingNums("A")
       IN  /\ \E j, k \in 1..Len(nums) : j < k /\ nums[j] = nums[k]
           /\ \E k \in 1..Len(nums) : nums[k] \notin 1..3
           /\ \E i \in 1..3 : \A k \in 1..Len(nums) : nums[k] /= i
    /\ Len(daily["A"]) = 3
    /\ \A i \in 1..3 : daily["A"][i].index = i


\* The children of an element that have this local name.
ChildrenNamed(e, name) == SelectSeq(e.children, LAMBDA ch : ch.tag.name = name)

\* The tree is rooted as the all-defaults shape roots it.
DefaultRooted(e) ==
    /\ e.tag = [ns |-> None, name |-> <<"T", "r", "a", "v", "e", "l", "P", "l", "a", "n">>]
    /\ e.attrib = (AttrVersion :> <<"1", ".", "0">>)

\* C9: if any step of inferring a shape from the example fails (the file is
\* missing, cannot be read or is not well-formed XML), the shape is the
\* all-defaults SchemaShape, no field carrying a value of the example, and
\* export_xml returns its tree without an error.  The example is consulted
\* when no file is at the map path.
C9_ExampleFailureDefaults ==
    \A c \in Callers :
        /\ Built(c)
        /\ args[c].schema_map.kind \in {"none", "missing"}
        /\ args[c].schema_example.kind \in {"missing", "unreadable", "malformed"}
        => /\ ShapeOrDefault(shape[c]) = DefaultShape
           /\ DefaultRooted(tree[c])

\* C9 at work: no map, an example that is not well-formed XML, and a tree
\* built from prose under the default shape.
C9_Witness ==
    /\ pc["A"] = "built"
    /\ args["A"].schema_map.kind = "none"
    /\ args["A"].schema_example.kind = "malformed"
    /\ ~plan_json["A"].found
    /\ DefaultRooted(tree["A"])
    /\ Len(ChildrenNamed(tree["A"], <<"M", "e", "t", "a">>)) = 1
    /\ Len(ChildrenNamed(tree["A"], <<"D", "a", "y", "s">>)) = 1


\* The shape "built from the map": the defaults and the map's fields over
\* them, or the defaults alone when the file gives no mapping.
ShapeBuiltFrom(f) ==
    IF f.kind = "ok" /\ ~ShapeFromMap(f.content).raised
      THEN ShapeFromMap(f.content).shape
    ELSE DefaultShape

\* C2: in export_xml the shape has exactly one source, in strict priority:
\* whenever a schema map is supplied the shape is built from the map and the
\* example is ignored; the example is used only when no map is supplied; the
\* default shape only when neither is supplied.
C2_StrictPriority ==
    \A c \in Callers :
        Built(c) =>
            ShapeOrDefault(shape[c]) =
                IF args[c].schema_map.kind /= "none"
                  THEN ShapeBuiltFrom(args[c].schema_map)
                ELSE IF args[c].schema_example.kind /= "none"
                  THEN InferShapeFromExample(args[c].schema_example)
                ELSE DefaultShape

\* C3: when the supplied schema-map file is unreadable (a missing file
\* included) or its content is malformed, export_xml raises nothing and
\* renders with the all-defaults SchemaShape, whether or not a valid example
\* was supplied too.
C3_BadMapDefaults ==
    \A c \in Callers :
        /\ Built(c)
        /\ args[c].schema_map.kind \in {"missing", "unreadable", "malformed"}
        => /\ ShapeOrDefault(shape[c]) = DefaultShape
           /\ DefaultRooted(tree[c])

\* The shape C8 describes for a mapping: every known field whose mapped
\* value is a string has that value, every other field its default.
MappedShape(m) ==
    [f \in DOMAIN DefaultShape |->
        IF HasKey(m, f) /\ TypeOf(Get(m, f)) = "str" THEN ValueOf(Get(m, f))
        ELSE DefaultShape[f]]

\* C8: _shape_from_map applied to any mapping yields the SchemaShape with
\* each known field whose mapped value is a string set to it and every other
\* field at its default; keys that are no shape fields and values that are
\* no strings change nothing.  With {root: Itinerary, day_tag: Jour} the
\* tree built from prose has the root Itinerary and day elements Jour.
C8_MapFieldByField ==
    \A c \in Callers :
        /\ Built(c)
        /\ args[c].schema_map.kind = "ok"
        /\ TypeOf(args[c].schema_map.content) = "dict"
        => /\ shape[c].some
           /\ \A f \in DOMAIN DefaultShape :
                  shape[c].shape[f] = MappedShape(args[c].schema_map.content)[f]
           /\ args[c].schema_map.content = MapRename /\ ~plan_json[c].found
              => /\ tree[c].tag.name = <<"I", "t", "i", "n", "e", "r", "a", "r", "y">>
                 /\ \A k \in 1..Len(tree[c].children) :
                        tree[c].children[k].tag.name = <<"D", "a", "y", "s">>
                        => /\ tree[c].children[k].children /= <<>>
                           /\ \A j \in 1..Len(tree[c].children[k].children) :
                                  tree[c].children[k].children[j].tag.name = <<"J", "o", "u", "r">>


\* The first fenced json block of a markdown text: from the first json tag
\* to the next fence, its body the text between them without the whitespace
\* around it.
JsonTags(md) == {o \in 0..Len(md) : OccursAt(md, FenceJson, o)}

FencesAfter(md, o) == {e \in o..Len(md) : OccursAt(md, Fence, e)}

HasBlock(md) ==
    /\ JsonTags(md) /= {}
    /\ FencesAfter(md, Min(JsonTags(md)) + Len(FenceJson)) /= {}

FirstBlockBody(md) ==
    LET b == Min(JsonTags(md)) + Len(FenceJson)
    IN  Strip(Slice(md, b, Min(FencesAfter(md, b))))

\* The first brace-delimited block: from the brace after the first json tag
\* that an opening brace follows to the first closing brace after it that a
\* fence follows.
BraceTags(md) ==
    {o \in JsonTags(md) : At(md, SkipClass(md, o + Len(FenceJson), WS)) = "{"}

BraceOpen(md) == SkipClass(md, Min(BraceTags(md)) + Len(FenceJson), WS)

BraceCloses(md) ==
    {e \in (BraceOpen(md) + 1)..Len(md) :
        At(md, e) = "}" /\ OccursAt(md, Fence, SkipClass(md, e + 1, WS))}

HasBraceBlock(md) == BraceTags(md) /= {} /\ BraceCloses(md) /= {}

BraceBlockText(md) == Slice(md, BraceOpen(md), Min(BraceCloses(md)) + 1)

\* The tree of the heuristic path for the caller's arguments and shape.
HeuristicTree(c) ==
    BuildXml(TravelPlan(args[c].destination, args[c].days, args[c].budget,
                        args[c].preferences, args[c].summary, args[c].tips,
                        ParseMarkdownDays(args[c].markdown_plan, args[c].days)),
             ShapeOrDefault(shape[c]))

\* The caller's export took the heuristic path over its whole markdown.
TookHeuristicPath(c) ==
    /\ ~plan_json[c].found
    /\ Len(daily[c]) = args[c].days
    /\ daily[c] = ParseMarkdownDays(args[c].markdown_plan, args[c].days)
    /\ tree[c] = HeuristicTree(c)

\* C4 as stated: when the first fenced json block of the markdown is
\* malformed JSON, _extract_plan_json returns not-found and export_xml
\* builds its tree from parse_markdown_days.
C4_FirstBlockMalformed ==
    \A c \in Callers :
        /\ Built(c)
        /\ HasBlock(args[c].markdown_plan)
        /\ JsonLoads(FirstBlockBody(args[c].markdown_plan)).raised
        => TookHeuristicPath(c)

\* C4, amended: when the first brace-delimited json block (a json-tagged
\* block whose body does not open with a brace is passed over) is malformed
\* JSON, _extract_plan_json returns not-found without raising and export_xml
\* builds its tree from parse_markdown_days over the whole markdown.
C4_BraceBlockMalformed ==
    \A c \in Callers :
        /\ Built(c)
        /\ HasBraceBlock(args[c].markdown_plan)
        /\ JsonLoads(BraceBlockText(args[c].markdown_plan)).raised
        => TookHeuristicPath(c)

\* C4 at work: a block with an unclosed brace before a well-formed block;
\* the tree is the days container of the prose reading, and no timeline.
C4_Witness ==
    /\ pc["A"] = "built"
    /\ args["A"].markdown_plan = Block(BodyUnclosed) \o Block(JsonText(SampleDoc))
    /\ args["A"].schema_map.kind = "none"
    /\ TookHeuristicPath("A")
    /\ Len(ChildrenNamed(tree["A"], <<"D", "a", "y", "s">>)) = 1
    /\ Len(ChildrenNamed(tree["A"], <<"D", "a", "y", "s">>)[1].children) = args["A"].days
    /\ ChildrenNamed(tree["A"], <<"T", "i", "m", "e", "l", "i", "n", "e">>) = <<>>


\* The markdown holds a fenced json object that parses.
HasPlanJson(c) ==
    /\ Built(c)
    /\ HasBraceBlock(args[c].markdown_plan)
    /\ ~JsonLoads(BraceBlockText(args[c].markdown_plan)).raised

\* The entries of the timeline list of the object in the markdown.
PlanTimeline(c) ==
    OrEmptyList(Get(JsonLoads(BraceBlockText(args[c].markdown_plan)).data, "timeline"))

\* The child of a time-slot for a field of the entry: none when the entry
\* does not supply the field, else the one element with the field as text.
SlotChild(s, name, x, supplied) ==
    IF supplied THEN <<Leaf(s, name, PyStr(x))>> ELSE <<>>

\* The event element is the one C5 describes for the entry: its type
\* attribute the entry's type ("custom" for an entry without one), its
\* time-slot with a day, start and end child exactly for the fields supplied.
EventRenders(s, el, evd) ==
    /\ el.tag = Q(s, s.event_tag)
    /\ s.event_type_attr \in DOMAIN el.attrib
    /\ el.attrib[s.event_type_attr] =
           IF Truth(Get(evd, "type")) THEN PyStr(Get(evd, "type"))
           ELSE <<"c", "u", "s", "t", "o", "m">>
    /\ el.children /= <<>>
    /\ el.children[1].tag = Q(s, s.timeslot_tag)
    /\ ChildrenNamed(el.children[1], s.timeslot_day) =
           SlotChild(s, s.timeslot_day, Get(evd, "day"), TypeOf(Get(evd, "day")) /= "null")
    /\ ChildrenNamed(el.children[1], s.timeslot_start) =
           SlotChild(s, s.timeslot_start, Get(evd, "start"), Truth(Get(evd, "start")))
    /\ ChildrenNamed(el.children[1], s.timeslot_end) =
           SlotChild(s, s.timeslot_end, Get(evd, "end"), Truth(Get(evd, "end")))

\* C5: when the markdown contains a parseable fenced json object, export_xml
\* renders from the JSON alone, and the markdown's headings and bullets have
\* no effect: the tree is build_xml_from_json of the object and the caller's
\* meta values; its one timeline container holds one event element per entry
\* of the JSON timeline, in list order, each with the entry's type as type
\* attribute and a time-slot with a day, start and end child exactly for the
\* fields the entry supplies.
C5_RendersFromJson ==
    \A c \in Callers :
        HasPlanJson(c)
        => LET s == ShapeOrDefault(shape[c])
               tls == ChildrenNamed(tree[c], s.timeline_tag)
           IN  /\ plan_json[c].found
               /\ plan_json[c].data = JsonLoads(BraceBlockText(args[c].markdown_plan)).data
               /\ daily[c] = <<>>
               /\ tree[c] = BuildXmlFromJson(plan_json[c].data,
                                FallbackMeta(args[c].destination, args[c].days, args[c].budget,
                                             args[c].preferences, args[c].summary), s)
               /\ Len(tls) = 1
               /\ Len(tls[1].children) = Len(PlanTimeline(c))
               /\ \A k \in 1..Len(PlanTimeline(c)) :
                      EventRenders(s, tls[1].children[k], PlanTimeline(c)[k])

\* C5 at work: after a day heading and a bullet, the block
\* {"meta":{"title":"X"},"timeline":[{"type":"dining","day":1,"start":"18:00"}]}
\* gives one event of type dining whose time-slot is Day 1, StartTime 18:00
\* and nothing else.
C5_Witness ==
    /\ pc["A"] = "built"
    /\ args["A"].markdown_plan =
           PrefixMd \o Block(JsonText(JDict(<<<<"meta", Meta1>>, <<"timeline", JList(<<Event1>>)>>>>)))
    /\ args["A"].schema_map.kind = "none"
    /\ plan_json["A"].found
    /\ LET tls == ChildrenNamed(tree["A"], <<"T", "i", "m", "e", "l", "i", "n", "e">>)
       IN  /\ Len(tls) = 1
           /\ Len(tls[1].children) = 1
           /\ tls[1].children[1].attrib[<<"t", "y", "p", "e">>] = <<"d", "i", "n", "i", "n", "g">>
           /\ tls[1].children[1].children[1].children =
                  <<Leaf(DefaultShape, <<"D", "a", "y">>, <<"1">>),
                    Leaf(DefaultShape, <<"S", "t", "a", "r", "t", "T", "i", "m", "e">>, <<"1", "8", ":", "0", "0">>)>>

\* The tree has one container of the name, and each of its children has the
\* child name.
OneContainer(e, name, child) ==
    /\ Len(ChildrenNamed(e, name)) = 1
    /\ \A k \in 1..Len(ChildrenNamed(e, name)[1].children) :
           ChildrenNamed(e, name)[1].children[k].tag.name = child

\* C6 as stated: when the JSON path is taken and the resolved shape's mode is
\* default, the tree has a days container of day elements with items
\* containers, and no timeline container of events.
C6_DefaultModeDays ==
    \A c \in Callers :
        /\ Built(c)
        /\ plan_json[c].found
        /\ ShapeOrDefault(shape[c]).mode /= ModeTimeline
        => LET s == ShapeOrDefault(shape[c])
           IN  /\ OneContainer(tree[c], s.days_tag, s.day_tag)
               /\ \A k \in 1..Len(ChildrenNamed(tree[c], s.days_tag)[1].children) :
                      Len(ChildrenNamed(ChildrenNamed(tree[c], s.days_tag)[1].children[k],
                                        s.items_tag)) = 1
               /\ ChildrenNamed(tree[c], s.timeline_tag) = <<>>

\* C6, amended: when the JSON path is taken the tree has a timeline
\* container of event elements, one per entry of the JSON timeline, and no
\* days container, whether the resolved shape's mode is default or timeline.
C6_JsonPathTimeline ==
    \A c \in Callers :
        /\ Built(c)
        /\ plan_json[c].found
        => LET s == ShapeOrDefault(shape[c])
           IN  /\ OneContainer(tree[c], s.timeline_tag, s.event_tag)
               /\ Len(ChildrenNamed(tree[c], s.timeline_tag)[1].children)
                      = Len(OrEmptyList(Get(plan_json[c].data, "timeline")))
               /\ ChildrenNamed(tree[c], s.days_tag) = <<>>

\* C6 at work: no map and no example, so the mode is default, and a plan of
\* two events: the tree has the timeline of the two and no days container.
C6_Witness ==
    /\ pc["A"] = "built"
    /\ ~shape["A"].some
    /\ ShapeOrDefault(shape["A"]).mode = <<"d", "e", "f", "a", "u", "l", "t">>
    /\ plan_json["A"].found
    /\ plan_json["A"].data = SampleDoc
    /\ Len(ChildrenNamed(tree["A"], <<"T", "i", "m", "e", "l", "i", "n", "e">>)) = 1
    /\ Len(ChildrenNamed(tree["A"], <<"T", "i", "m", "e", "l", "i", "n", "e">>)[1].children) = 2
    /\ ChildrenNamed(tree["A"], <<"D", "a", "y", "s">>) = <<>>


\* C7: exports are independent of one another: the XML save_xml writes for
\* a tree whose shape has a namespace is the same under every interleaving
\* with another export, the shape's namespace declared as the default
\* (unprefixed) one and every element written without a prefix, as when the
\* registry holds this export's registration alone.
C7_ExportsIndependent ==
    \A c \in Callers :
        /\ pc[c] = "saved"
        /\ tree[c].tag.ns /= None
        => /\ out[c].xmlns = {<<<<>>, tree[c].tag.ns>>}
           /\ out[c] = Serialize(RegisterNamespace({}, <<>>, tree[c].tag.ns), tree[c])


\* The element the default-mode fields are written under, and the field
\* elements there of a name: the children that carry a text.
FieldsParent(e, s) == IF Truthy(s.meta) THEN ChildrenNamed(e, s.meta)[1] ELSE e

FieldElems(e, s, name) ==
    SelectSeq(FieldsParent(e, s).children,
              LAMBDA ch : ch.tag.name = name /\ ch.text /= None)

\* The caller's tree was built in default mode from a TravelPlan.
DefaultFromPlan(c) ==
    /\ Built(c)
    /\ ~plan_json[c].found
    /\ ShapeOrDefault(shape[c]).mode /= ModeTimeline
    /\ Truthy(ShapeOrDefault(shape[c]).meta)
       => Len(ChildrenNamed(tree[c], ShapeOrDefault(shape[c]).meta)) = 1

\* C10 as stated: in default mode built from a TravelPlan, each of
\* destination, day count, budget, preferences, summary and tips is emitted
\* as an element if and only if it has a value (it is neither empty nor
\* unset), under a meta container and directly at the root alike.
C10_EmittedIffValue ==
    \A c \in Callers :
        DefaultFromPlan(c)
        => LET s == ShapeOrDefault(shape[c])
               a == args[c]
           IN  /\ FieldElems(tree[c], s, s.destination) /= <<>> <=> a.destination /= <<>>
               /\ FieldElems(tree[c], s, s.days_count) /= <<>>
               /\ FieldElems(tree[c], s, s.budget) /= <<>> <=> a.budget /= <<>>
               /\ FieldElems(tree[c], s, s.preferences) /= <<>> <=> a.preferences /= <<>>
               /\ FieldElems(tree[c], s, s.summary) /= <<>> <=> Truthy(a.summary)
               /\ FieldElems(tree[c], s, s.tips) /= <<>> <=> Truthy(a.tips)

\* C10, amended: in default mode built from a TravelPlan, destination,
\* budget and preferences are emitted always, with an empty text when the
\* value is empty; summary and tips are emitted if and only if they have a
\* value; the day count is emitted if and only if the shape has a meta
\* container and a day-count tag, never directly at the root.
C10_EmittedFields ==
    \A c \in Callers :
        DefaultFromPlan(c)
        => LET s == ShapeOrDefault(shape[c])
               a == args[c]
           IN  /\ FieldElems(tree[c], s, s.destination) = <<Leaf(s, s.destination, a.destination)>>
               /\ FieldElems(tree[c], s, s.budget) = <<Leaf(s, s.budget, a.budget)>>
               /\ FieldElems(tree[c], s, s.preferences) = <<Leaf(s, s.preferences, a.preferences)>>
               /\ FieldElems(tree[c], s, s.summary) =
                      IF Truthy(a.summary) THEN <<Leaf(s, s.summary, a.summary)>> ELSE <<>>
               /\ FieldElems(tree[c], s, s.tips) =
                      IF Truthy(a.tips) THEN <<Leaf(s, s.tips, a.tips)>> ELSE <<>>
               /\ FieldElems(tree[c], s, s.days_count) =
                      IF Truthy(s.meta) /\ Truthy(s.days_count)
                        THEN <<Leaf(s, s.days_count, IntStr(a.days))>>
                      ELSE <<>>

\* C10 at work: under the default shape, an empty destination, an empty
\* summary and tips "T": the meta container holds an empty Destination, the
\* day count, Budget, Preferences and Tips, and no Summary.
C10_Witness ==
    /\ pc["A"] = "built"
    /\ ~shape["A"].some
    /\ args["A"].destination = <<>>
    /\ args["A"].summary = <<>>
    /\ args["A"].tips = <<"T">>
    /\ args["A"].days = 2
    /\ DefaultFromPlan("A")
    /\ ChildrenNamed(tree["A"], <<"M", "e", "t", "a">>)[1].children =
           <<Leaf(DefaultShape, <<"D", "e", "s", "t", "i", "n", "a", "t", "i", "o", "n">>, <<>>),
             Leaf(DefaultShape, <<"D", "a", "y", "s">>, <<"2">>),
             Leaf(DefaultShape, <<"B", "u", "d", "g", "e", "t">>, args["A"].budget),
             Leaf(DefaultShape, <<"P", "r", "e", "f", "e", "r", "e", "n", "c", "e", "s">>, args["A"].preferences),
             Leaf(DefaultShape, <<"T", "i", "p", "s">>, <<"T">>)>>


------------------------------------------------------------------------------
(* Callers of build_xml with a TravelPlan of their own.                    *)

\* PlanItem(...) with every field given.
PlanItemOf(period, title, location, transport, duration, cost, note) ==
    [period |-> period, title |-> title, location |-> location,
     transport |-> transport, duration |-> duration, cost |-> cost,
     note |-> note]

\* Items: bare; with every optional field; with empty strings and a duration
\* that is no number; with a transport only.
ItemBare == PlanItemOf(<<"m", "o", "r", "n", "i", "n", "g">>, <<"A">>, None, None, None, None, None)

ItemFull == PlanItemOf(<<"e", "v", "e", "n", "i", "n", "g">>, <<"B">>, <<"L">>, <<"w", "a", "l", "k">>, <<"1", "2", "0">>, <<"9">>, <<"n">>)

ItemEmpties == PlanItemOf(<<"o", "t", "h", "e", "r">>, <<"C">>, <<>>, None, <<"2", "h">>, <<>>, <<>>)

ItemRide == PlanItemOf(<<"a", "f", "t", "e", "r", "n", "o", "o", "n">>, <<"D">>, None, <<"b", "u", "s">>, None, None, None)

\* Days: without items and without note, with an empty note, with a note;
\* with items.
DaySamples ==
    {DayPlan(1, <<>>, None), DayPlan(2, <<>>, <<>>), DayPlan(2, <<>>, <<"r", "e", "s", "t">>),
     DayPlan(1, <<ItemBare, ItemFull>>, None),
     DayPlan(3, <<ItemEmpties, ItemRide>>, <<"n">>)}

\* Bound: the days of a plan handed to build_xml.
MaxPlanDays == 2

\* build_xml's shape argument: None, the timeline mode, the fields at the
\* root.
PlanShapes ==
    {NoShape, SomeShape([DefaultShape EXCEPT !.mode = ModeTimeline]),
     SomeShape([DefaultShape EXCEPT !.meta = None])}

PlanInputs ==
    {TravelPlan(dest, Len(dl), Mid, Food, None, None, dl) :
        dest \in {Rome, <<>>},
        dl \in UNION {[1..n -> DaySamples] : n \in 0..MaxPlanDays}}

\* A caller builds the tree of its own plan: build_xml(plan, sh).  The plan is
\* kept where export_xml keeps the plan it makes, in args and daily.
CallBuildXml(c, plan, sh) ==
    /\ pc[c] = "idle"
    /\ pc' = [pc EXCEPT ![c] = "built"]
    /\ args' = [args EXCEPT ![c] =
                   Args(plan.destination, plan.days, plan.budget, plan.preferences,
                        <<>>, plan.summary, plan.tips, NoExample, NoMap)]
    /\ shape' = [shape EXCEPT ![c] = sh]
    /\ daily' = [daily EXCEPT ![c] = plan.daily]
    /\ tree' = [tree EXCEPT ![c] = BuildXml(plan, ShapeOrDefault(sh))]
    /\ nsmap' = IF Truthy(ShapeOrDefault(sh).ns)
                  THEN RegisterNamespace(nsmap, <<>>, ShapeOrDefault(sh).ns)
                ELSE nsmap
    /\ UNCHANGED <<plan_json, out, session>>

NextPlan ==
    \/ \E plan \in PlanInputs, sh \in PlanShapes : CallBuildXml("A", plan, sh)
    \/ SaveXml("A")
    \/ Return("A")

SpecPlan == Init /\ [][NextPlan]_vars

------------------------------------------------------------------------------
(* Properties of build_xml.                                                *)

\* The TravelPlan the caller's tree was built from.
PlanOf(c) ==
    TravelPlan(args[c].destination, args[c].days, args[c].budget,
               args[c].preferences, args[c].summary, args[c].tips, daily[c])

\* The caller's tree was built by build_xml, in the default mode under the
\* all-defaults shape.
BuiltDefault(c) ==
    Built(c) /\ ~plan_json[c].found /\ ShapeOrDefault(shape[c]) = DefaultShape

\* Reading a tree back: the text of the first child of a name, None when
\* there is none.
ChildText(e, name) ==
    IF ChildrenNamed(e, name) = <<>> THEN None ELSE ChildrenNamed(e, name)[1].text

\* The item, the day and the plan read back from a default-mode tree through
\* the tag and attribute names of the shape s.
ReadItem(e, s) ==
    [title |-> ChildText(e, s.title), location |-> ChildText(e, s.location),
     transport |-> ChildText(e, s.transport), duration |-> ChildText(e, s.duration),
     cost |-> ChildText(e, s.cost)]

ReadDay(e, s) ==
    [index |-> ParseInt(e.attrib[s.day_index_attr]),
     items |-> LET its == ChildrenNamed(e, s.items_tag)[1].children
               IN  [k \in 1..Len(its) |-> ReadItem(its[k], s)]]

ReadPlan(e, s) ==
    LET meta == ChildrenNamed(e, s.meta)[1]
        ds == ChildrenNamed(e, s.days_tag)[1].children
    IN  [destination |-> ChildText(meta, s.destination),
         budget |-> ChildText(meta, s.budget),
         preferences |-> ChildText(meta, s.preferences),
         daily |-> [k \in 1..Len(ds) |-> ReadDay(ds[k], s)]]

\* An optional field as it is read back: itself when present, None when not.
Kept(x) == IF Truthy(x) THEN x ELSE None

\* C11: round trip with the default shape: the default-mode tree build_xml
\* makes, read back through the same tag names, gives the plan's destination,
\* budget and preferences, the day indices in order and per day the item
\* titles in order; location, transport, duration and cost are read back
\* exactly when the item had them.
C11_RoundTrip ==
    \A c \in Callers :
        BuiltDefault(c)
        => LET plan == PlanOf(c)
               r == ReadPlan(tree[c], DefaultShape)
           IN  /\ r.destination = plan.destination
               /\ r.budget = plan.budget
               /\ r.preferences = plan.preferences
               /\ Len(r.daily) = Len(plan.daily)
               /\ \A k \in 1..Len(plan.daily) :
                      /\ r.daily[k].index = plan.daily[k].index
                      /\ Len(r.daily[k].items) = Len(plan.daily[k].items)
                      /\ \A j \in 1..Len(plan.daily[k].items) :
                             LET it == plan.daily[k].items[j]
                                 ri == r.daily[k].items[j]
                             IN  /\ ri.title = it.title
                                 /\ ri.location = Kept(it.location)
                                 /\ ri.transport = Kept(it.transport)
                                 /\ ri.duration = Kept(it.duration)
                                 /\ ri.cost = Kept(it.cost)

\* C11 at work: a plan of two days, the first with a bare item and an item
\* with every field, the second with an item that has a duration and no
\* location or cost.
C11_Witness ==
    /\ pc["A"] = "built"
    /\ BuiltDefault("A")
    /\ daily["A"] = <<DayPlan(1, <<ItemBare, ItemFull>>, None),
                      DayPlan(3, <<ItemEmpties, ItemRide>>, <<"n">>)>>
    /\ LET r == ReadPlan(tree["A"], DefaultShape)
       IN  /\ r.destination = Rome
           /\ r.daily[1].index = 1 /\ r.daily[2].index = 3
           /\ r.daily[1].items[2] =
                  [title |-> <<"B">>, location |-> <<"L">>, transport |-> <<"w", "a", "l", "k">>,
                   duration |-> <<"1", "2", "0">>, cost |-> <<"9">>]
           /\ r.daily[2].items[1] =
                  [title |-> <<"C">>, location |-> None, transport |-> None,
                   duration |-> <<"2", "h">>, cost |-> None]


\* The caller's export read a markdown without a day heading.
NoHeadings(c) ==
    /\ Built(c)
    /\ ~plan_json[c].found
    /\ HeadingParts(args[c].markdown_plan) = <<>>

\* C12 as stated: for a markdown without a recognizable day heading,
\* parse_markdown_days returns `days` DayPlans, each with no items and the
\* same note, and that note equals the full document text verbatim.
C12_NoteVerbatim ==
    \A c \in Callers :
        NoHeadings(c)
        => /\ Len(daily[c]) = args[c].days
           /\ \A i \in 1..Len(daily[c]) :
                  /\ daily[c][i].items = <<>>
                  /\ daily[c][i].note = args[c].markdown_plan

\* C12, amended: for a markdown without a recognizable day heading,
\* parse_markdown_days returns `days` DayPlans, each with no items and the
\* same note, and that note equals the full document text with the
\* whitespace before and after it removed.
C12_NoteStripped ==
    \A c \in Callers :
        NoHeadings(c)
        => /\ Len(daily[c]) = args[c].days
           /\ \A i \in 1..Len(daily[c]) :
                  /\ daily[c][i].index = i
                  /\ daily[c][i].items = <<>>
                  /\ daily[c][i].note = Strip(args[c].markdown_plan)

\* C12 at work: three days and the one bullet line of LineMorning ended by a
\* newline; each of the three DayPlans has the line without the newline as
\* its note.
C12_Witness ==
    /\ pc["A"] = "built"
    /\ args["A"].days = 3
    /\ args["A"].markdown_plan = LineMorning \o <<"\n">>
    /\ Len(daily["A"]) = 3
    /\ \A i \in 1..3 : daily["A"][i] = DayPlan(i, <<>>, LineMorning)

\* ---------------------------------------------------------------------------
\* Exports of one day of bullet lines
\* ---------------------------------------------------------------------------

\* Bullet lines: full stops only, a zero of minutes and of hours, hours with a
\* fraction, a hyphen note, minutes, minutes before hours, empty brackets,
\* the periods, and a plain title.
ItemDots == <<"-", " ", "U3002", "U3002">>

ItemZeroMin == <<"-", " ", "x", " ", "0", "U5206", "U949F">>

ItemZeroHour == <<"-", " ", "a", " ", "0", "U5C0F", "U65F6">>

ItemFloat == <<"-", " ", "4", ".", "1", "U5C0F", "U65F6", " ", "h", "i", "k", "e">>

ItemDinner == <<"-", " ", "U665A", "U9910", " ", "-", " ", "2", ".", "5", "U5C0F", "U65F6", " ", "U5730", "U94C1">>

ItemMin == <<"-", " ", "9", "0", "m", "i", "n", " ", "w", "a", "l", "k">>

ItemBoth == <<"-", " ", "3", "0", "U5206", "U949F", " ", "2", "U5C0F", "U65F6">>

ItemTea == <<"-", " ", "t", "e", "a", "UFF08", "UFF09">>

ItemAfternoon == <<"-", " ", "U4E0B", "U5348", "UFF1A", "U8336", " ", "1", ".", "5", " ", "h">>

ItemNight == <<"-", " ", "U591C", " ", "(", "a", ")", " ", "U3002">>

ItemPlain == <<"-", " ", "a", "b">>

ItemLines ==
    {ItemDots, ItemZeroMin, ItemZeroHour, ItemFloat, ItemDinner, ItemMin,
     ItemBoth, ItemTea, ItemAfternoon, ItemNight, ItemPlain, LineMorning}

MaxItemLines == 2

\* The texts of the heading of day 1 and at most n bullet lines.
RECURSIVE ItemMds(_)
ItemMds(n) ==
    IF n = 0 THEN {LineDay1 \o <<"\n">>}
    ELSE LET S == ItemMds(n - 1)
         IN  S \cup {md \o l \o <<"\n">> : md \in S, l \in ItemLines}

ItemInputs ==
    {Args(Rome, 1, Mid, Food, md, None, None, NoExample, NoMap) :
        md \in ItemMds(MaxItemLines)}

SpecItems == Init /\ [][NextOver({"A"}, ItemInputs)]_vars

\* The bullet lines under the heading of the caller's markdown, each without
\* its bullet marker.
BulletLines(c) ==
    LET ls == Tail(SplitLines(Strip(args[c].markdown_plan)))
    IN  [k \in 1..Len(ls) |-> BulletText(ls[k])]

\* The caller's export read its bullet lines one PlanItem each.
ReadItems(c) ==
    /\ Built(c)
    /\ ~plan_json[c].found
    /\ Len(daily[c]) = 1
    /\ Len(daily[c][1].items) = Len(BulletLines(c))

Periods ==
    {<<"m", "o", "r", "n", "i", "n", "g">>, <<"a", "f", "t", "e", "r", "n", "o", "o", "n">>, <<"e", "v", "e", "n", "i", "n", "g">>, <<"o", "t", "h", "e", "r">>}

\* C13: every PlanItem produced by the parser has a non-empty title and a
\* period that is one of morning, afternoon, evening and other.
C13_TitleAndPeriod ==
    \A c \in Callers :
        Built(c) /\ ~plan_json[c].found
        => \A i \in 1..Len(daily[c]) :
               \A k \in 1..Len(daily[c][i].items) :
                   /\ daily[c][i].items[k].title /= <<>>
                   /\ daily[c][i].items[k].period \in Periods

\* ---------------------------------------------------------------------------
\* Properties of build_xml, timeline mode
\* ---------------------------------------------------------------------------

\* The caller's tree was built by build_xml in timeline mode.
BuiltTimeline(c) ==
    Built(c) /\ ~plan_json[c].found /\ ShapeOrDefault(shape[c]).mode = ModeTimeline

\* The events of the caller's timeline container, in document order.
EventsOf(c) ==
    ChildrenNamed(tree[c], ShapeOrDefault(shape[c]).timeline_tag)[1].children

\* The number of events before those of the k-th day: one for each earlier
\* day without items, one per item for the others.
RECURSIVE EventsBefore(_, _)
EventsBefore(dl, k) ==
    IF k <= 1 THEN 0
    ELSE EventsBefore(dl, k - 1)
             + (IF dl[k - 1].items = <<>> THEN 1 ELSE Len(dl[k - 1].items))

\* The events of the k-th day of the caller's plan.
DaySegment(c, k) ==
    SubSeq(EventsOf(c), EventsBefore(daily[c], k) + 1, EventsBefore(daily[c], k + 1))

\* The time-slot and the activity of an event.
SlotOf(e, s) == ChildrenNamed(e, s.timeslot_tag)[1]

ActivityOf(e, s) == ChildrenNamed(e, s.activity_tag)[1]

\* The event is a rest event for the day: type rest, start 10:00, no end,
\* and the day's note, when it has one, as the activity description.
IsRestEvent(e, s, d) ==
    /\ e.attrib[s.event_type_attr] = <<"r", "e", "s", "t">>
    /\ ChildText(SlotOf(e, s), s.timeslot_start) = <<"1", "0", ":", "0", "0">>
    /\ ChildrenNamed(SlotOf(e, s), s.timeslot_end) = <<>>
    /\ ChildrenNamed(ActivityOf(e, s), s.activity_desc) =
           IF Truthy(d.note) THEN <<Leaf(s, s.activity_desc, d.note)>> ELSE <<>>

\* C14: in timeline mode built from a TravelPlan, every DayPlan yields at
\* least one event, and the time-slot day of each of its events is the
\* DayPlan's index; a DayPlan without items yields exactly one event, of type
\* rest, with start time 10:00, no end element and the day's note as its
\* activity description (no description for a day without a note).
C14_EveryDayAnEvent ==
    \A c \in Callers :
        BuiltTimeline(c)
        => LET s == ShapeOrDefault(shape[c])
           IN  /\ Len(ChildrenNamed(tree[c], s.timeline_tag)) = 1
               /\ Len(EventsOf(c)) = EventsBefore(daily[c], Len(daily[c]) + 1)
               /\ \A k \in 1..Len(daily[c]) :
                      /\ Len(DaySegment(c, k)) >= 1
                      /\ \A j \in 1..Len(DaySegment(c, k)) :
                             ChildText(SlotOf(DaySegment(c, k)[j], s), s.timeslot_day)
                                 = IntStr(daily[c][k].index)
                      /\ daily[c][k].items = <<>>
                         => /\ Len(DaySegment(c, k)) = 1
                            /\ IsRestEvent(DaySegment(c, k)[1], s, daily[c][k])

\* C14 at work: a plan of day 2 without items and with the note "rest", then
\* day 1 with two items: three events, the first the rest event of day 2
\* with the note as description, the other two of day 1.
C14_Witness ==
    /\ pc["A"] = "built"
    /\ BuiltTimeline("A")
    /\ daily["A"] = <<DayPlan(2, <<>>, <<"r", "e", "s", "t">>), DayPlan(1, <<ItemBare, ItemFull>>, None)>>
    /\ Len(EventsOf("A")) = 3
    /\ EventsOf("A")[1].attrib[<<"t", "y", "p", "e">>] = <<"r", "e", "s", "t">>
    /\ EventsOf("A")[1].children =
           <<Element(Q(DefaultShape, <<"T", "i", "m", "e", "S", "l", "o", "t">>), NoAttrib, None,
                     <<Leaf(DefaultShape, <<"D", "a", "y">>, <<"2">>),
                       Leaf(DefaultShape, <<"S", "t", "a", "r", "t", "T", "i", "m", "e">>, <<"1", "0", ":", "0", "0">>)>>),
             Element(Q(DefaultShape, <<"A", "c", "t", "i", "v", "i", "t", "y">>), NoAttrib, None,
                     <<Leaf(DefaultShape, <<"T", "i", "t", "l", "e">>, <<"U81EA", "U7531", "U6D3B", "U52A8", "/", "U4F11", "U606F">>),
                       Leaf(DefaultShape, <<"D", "e", "s", "c", "r", "i", "p", "t", "i", "o", "n">>, <<"r", "e", "s", "t">>)>>)>>
    /\ ChildText(SlotOf(EventsOf("A")[2], DefaultShape), <<"D", "a", "y">>) = <<"1">>
    /\ ChildText(SlotOf(EventsOf("A")[3], DefaultShape), <<"D", "a", "y">>) = <<"1">>

\* The window and the event type C20 gives for a period.
WindowOf(period) ==
    CASE period = <<"m", "o", "r", "n", "i", "n", "g">> -> <<<<"0", "9", ":", "0", "0">>, <<"1", "2", ":", "0", "0">>, <<"a", "t", "t", "r", "a", "c", "t", "i", "o", "n">>>>
      [] period = <<"a", "f", "t", "e", "r", "n", "o", "o", "n">> -> <<<<"1", "3", ":", "3", "0">>, <<"1", "7", ":", "0", "0">>, <<"a", "t", "t", "r", "a", "c", "t", "i", "o", "n">>>>
      [] period = <<"e", "v", "e", "n", "i", "n", "g">> -> <<<<"1", "8", ":", "3", "0">>, <<"2", "1", ":", "0", "0">>, <<"d", "i", "n", "i", "n", "g">>>>
      [] period = <<"o", "t", "h", "e", "r">> -> <<<<"1", "0", ":", "0", "0">>, <<"1", "2", ":", "0", "0">>, <<"c", "u", "s", "t", "o", "m">>>>

\* C20: for every item event synthesized from a TravelPlan in timeline mode,
\* the start and end times are the window of the item's period (morning
\* 09:00-12:00, afternoon 13:30-17:00, evening 18:30-21:00, other
\* 10:00-12:00) and the type attribute is attraction for morning and
\* afternoon, dining for evening and custom for other.
C20_WindowAndType ==
    \A c \in Callers :
        BuiltTimeline(c)
        => LET s == ShapeOrDefault(shape[c])
           IN  \A k \in 1..Len(daily[c]) :
                   /\ daily[c][k].items /= <<>>
                      => Len(DaySegment(c, k)) = Len(daily[c][k].items)
                   /\ \A j \in 1..Len(daily[c][k].items) :
                          LET e == DaySegment(c, k)[j]
                              w == WindowOf(daily[c][k].items[j].period)
                          IN  /\ daily[c][k].items[j].period \in Periods
                              /\ ChildrenNamed(SlotOf(e, s), s.timeslot_start)
                                     = <<Leaf(s, s.timeslot_start, w[1])>>
                              /\ ChildrenNamed(SlotOf(e, s), s.timeslot_end)
                                     = <<Leaf(s, s.timeslot_end, w[2])>>
                              /\ e.attrib[s.event_type_attr] = w[3]

\* C20 at work: a plan of two days whose four items have the four periods:
\* the events are morning and evening of day 1, then other and afternoon of
\* day 3.
C20_Witness ==
    /\ pc["A"] = "built"
    /\ BuiltTimeline("A")
    /\ daily["A"] = <<DayPlan(1, <<ItemBare, ItemFull>>, None),
                      DayPlan(3, <<ItemEmpties, ItemRide>>, <<"n">>)>>
    /\ [k \in 1..4 |-> EventsOf("A")[k].attrib[<<"t", "y", "p", "e">>]]
           = <<<<"a", "t", "t", "r", "a", "c", "t", "i", "o", "n">>, <<"d", "i", "n", "i", "n", "g">>, <<"c", "u", "s", "t", "o", "m">>, <<"a", "t", "t", "r", "a", "c", "t", "i", "o", "n">>>>
    /\ [k \in 1..4 |-> ChildText(SlotOf(EventsOf("A")[k], DefaultShape), <<"S", "t", "a", "r", "t", "T", "i", "m", "e">>)]
           = <<<<"0", "9", ":", "0", "0">>, <<"1", "8", ":", "3", "0">>, <<"1", "0", ":", "0", "0">>, <<"1", "3", ":", "3", "0">>>>
    /\ [k \in 1..4 |-> ChildText(SlotOf(EventsOf("A")[k], DefaultShape), <<"E", "n", "d", "T", "i", "m", "e">>)]
           = <<<<"1", "2", ":", "0", "0">>, <<"2", "1", ":", "0", "0">>, <<"1", "2", ":", "0", "0">>, <<"1", "7", ":", "0", "0">>>>

\* The positions, in document order, of the headings of day number i in the
\* caller's markdown.
HeadingsOf(c, i) ==
    {k \in 1..Len(HeadingParts(args[c].markdown_plan)) :
        HeadingParts(args[c].markdown_plan)[k].num = i}

\* C18: when the markdown contains several headings with the same day
\* number, the DayPlan returned for that number is the one parsed from the
\* last such heading in document order, its items and note only; the blocks
\* of the earlier headings contribute nothing.
C18_LastHeadingWins ==
    \A c \in Callers :
        Built(c) /\ ~plan_json[c].found
        => \A i \in 1..Len(daily[c]) :
               Cardinality(HeadingsOf(c, i)) >= 2
               => daily[c][i] =
                      BlockDay(args[c].markdown_plan,
                               HeadingParts(args[c].markdown_plan)[Max(HeadingsOf(c, i))])

\* C18 at work: the heading of day 1, a bullet, and the heading of day 1
\* again with nothing under it: day 1 has no items and the empty note of the
\* last block, and the bullet of the first block is nowhere.
C18_Witness ==
    /\ pc["A"] = "built"
    /\ args["A"].days = 2
    /\ args["A"].markdown_plan =
           LineDay1 \o <<"\n">> \o LineMorning \o <<"\n">> \o LineDay1 \o <<"\n">>
    /\ HeadingsOf("A", 1) = {1, 2}
    /\ daily["A"] = <<DayPlan(1, <<>>, <<>>), DayPlan(2, <<>>, <<>>)>>

\* The duration C19 gives for a bullet line: for a number followed by an hour
\* unit the decimal string of the number times 60, truncated; else for an
\* integer followed by a minute unit its decimal string; else none.
ClaimedDuration(l) ==
    LET H == {o \in 0..Len(l) : HoursMatchAt(l, o).ok}
        M == {o \in 0..Len(l) : MinutesMatchAt(l, o).ok}
    IN  IF H /= {}
          THEN LET m == HoursMatchAt(l, Min(H))
               IN  IntStr(((ParseInt(m.ip) * Pow10(Len(m.fp)) + ParseInt(m.fp)) * 60)
                              \div Pow10(Len(m.fp)))
        ELSE IF M /= {} THEN IntStr(ParseInt(MinutesMatchAt(l, Min(M)).ip))
        ELSE None

\* C19: for an item line containing a number n followed by an hour unit, the
\* item's duration is the decimal string of n*60 truncated toward zero;
\* otherwise, for a line containing an integer m followed by a minute unit,
\* the decimal string of m; otherwise the duration is omitted.  This holds
\* for every matched value, including 0 and non-integer hours.
C19_DurationMinutes ==
    \A c \in Callers :
        ReadItems(c)
        => \A k \in 1..Len(BulletLines(c)) :
               daily[c][1].items[k].duration = ClaimedDuration(BulletLines(c)[k])

\* The destinations list of the meta object of the caller's JSON plan, empty
\* when the object has none.
MetaDestinations(c) ==
    OrEmptyList(Get(OrEmptyDict(Get(plan_json[c].data, "meta")), "destinations"))

\* The city children of the destinations element of the caller's tree, none
\* when the tree has no destinations element.
CitiesOf(c) ==
    LET ds == ChildrenNamed(FieldsParent(tree[c], ShapeOrDefault(shape[c])), <<"D", "e", "s", "t", "i", "n", "a", "t", "i", "o", "n", "s">>)
    IN  IF ds = <<>> THEN <<>> ELSE ds[1].children

\* C16: in the JSON path the destinations list has one city child per entry
\* of the JSON meta.destinations list, in order, whenever that list is
\* non-empty, for every value of the caller's destination argument, the empty
\* one included; the caller's destination is the single city only when
\* meta.destinations is absent or empty.
C16_MetaDestinations ==
    \A c \in Callers :
        Built(c) /\ plan_json[c].found
        => LET s == ShapeOrDefault(shape[c])
           IN  IF MetaDestinations(c) /= <<>>
                 THEN CitiesOf(c) =
                          [k \in 1..Len(MetaDestinations(c)) |->
                              Leaf(s, <<"C", "i", "t", "y">>, PyStr(MetaDestinations(c)[k]))]
               ELSE args[c].destination /= <<>>
                    => CitiesOf(c) = <<Leaf(s, <<"C", "i", "t", "y">>, args[c].destination)>>

\* The caller's shape was inferred from a well-formed example, no map given.
ShapeFromExample(c) ==
    /\ Built(c)
    /\ args[c].schema_map.kind = "none"
    /\ args[c].schema_example.kind = "ok"

\* The children of the example's root whose local name is one of the names,
\* compared without case.
ChildrenCalled(root, names) ==
    {k \in 1..Len(root.children) :
        \E i \in 1..Len(names) : Lower(StripNs(root.children[k].tag)) = Lower(names[i])}

\* C17: _infer_shape_from_example selects timeline mode exactly when the
\* example root has a child whose local name is Timeline (without case,
\* namespace stripped) with at least one child; timeline_tag is then that
\* container's local name and event_tag the local name of its first child.
\* Otherwise the mode stays default and, if a Days/Itinerary/Schedule-like
\* container exists, days_tag is its local name and day_tag the local name of
\* its first child.
C17_TimelineDetected ==
    \A c \in Callers :
        ShapeFromExample(c)
        => LET root == args[c].schema_example.content
               s == ShapeOrDefault(shape[c])
               T == {k \in ChildrenCalled(root, TimelineNames) :
                        root.children[k].children /= <<>>}
               D == ChildrenCalled(root, DaysNames)
           IN  IF T /= {}
                 THEN /\ s.mode = ModeTimeline
                      /\ \E k \in T :
                             /\ s.timeline_tag = StripNs(root.children[k].tag)
                             /\ s.event_tag = StripNs(root.children[k].children[1].tag)
               ELSE /\ s.mode = DefaultShape.mode
                    /\ D /= {}
                       => \E k \in D :
                              /\ s.days_tag = StripNs(root.children[k].tag)
                              /\ root.children[k].children /= <<>>
                                 => s.day_tag = StripNs(root.children[k].children[1].tag)

\* ---------------------------------------------------------------------------
\* The session of main(): plan_once, once or in the interactive loop
\* ---------------------------------------------------------------------------
\* session.step is the position of main(); session.call holds the locals of
\* plan_once, md and xml the fate of the two files, reports the messages
\* plan_once printed about them, returned the value of its return statement.
\* console.print and Prompt.ask are calls into a library outside the
\* repository and are taken to return.

\* The generated plans (crew.kickoff's result or the offline text).
SessionMarkdowns ==
    {HeuristicMd, PrefixMd \o Block(JsonText(SampleDoc)), LineMorning \o <<"\n">>}

\* The schema hints of the command line.
SessionMaps == {NoMap, File("ok", MapTimeline), File("missing", JNull)}

\* The answers at the prompt other than exit, stripped: a change request or
\* none.
ChangeRequests == {<<>>, <<"c", "h", "e", "a", "p", "e", "r">>}

\* parse_args and the set-up before the try block: --once or the loop.
MainStart(once) ==
    /\ session.step = "main"
    /\ session' = [session EXCEPT !.step = "plan", !.once = once]
    /\ UNCHANGED <<nsmap, pc, args, shape, plan_json, daily, tree, out>>

\* plan_once up to the printing of the result: the inputs are collected and
\* the plan is generated; tips is the change request or None.
Generate(md, mp) ==
    /\ session.step = "plan"
    /\ pc["A"] = "idle"
    /\ session' = [session EXCEPT
                       !.step = "generated",
                       !.call = Args(Rome, 2, Mid, Food, md, None,
                                     IF session.change /= <<>> THEN session.change ELSE None,
                                     NoExample, mp),
                       !.md = "pending", !.xml = "pending",
                       !.reports = {}, !.returned = None]
    /\ UNCHANGED <<nsmap, pc, args, shape, plan_json, daily, tree, out>>

\* A faulty first try block: the failure of the write leaves plan_once.
WriteMarkdownUncaught(ok) ==
    /\ session.step = "generated"
    /\ session' = IF ok THEN [session EXCEPT !.step = "md_done", !.md = "written"]
                  ELSE [session EXCEPT !.step = "aborted", !.md = "failed"]
    /\ UNCHANGED <<nsmap, pc, args, shape, plan_json, daily, tree, out>>

\* The first try block: makedirs and the write of the markdown copy succeed,
\* or raise and the handler prints the failure.
WriteMarkdown(ok) ==
    /\ session.step = "generated"
    /\ session' = IF ok THEN [session EXCEPT !.step = "md_done", !.md = "written"]
                  ELSE [session EXCEPT !.step = "md_done", !.md = "failed",
                                       !.reports = @ \cup {"md_failed"}]
    /\ UNCHANGED <<nsmap, pc, args, shape, plan_json, daily, tree, out>>

\* The second try block, export_xml: it returns the tree, or raises (a JSON
\* plan whose timeline entry is no object, for one) and the handler prints
\* the failure.
PlanOnceExport(raises) ==
    /\ session.step = "md_done"
    /\ IF raises
         THEN /\ session' = [session EXCEPT !.step = "xml_done", !.xml = "failed",
                                            !.reports = @ \cup {"xml_failed"}]
              /\ UNCHANGED <<nsmap, pc, args, shape, plan_json, daily, tree, out>>
       ELSE /\ DoExportXml("A", session.call)
            /\ session' = [session EXCEPT !.step = "exported", !.xml = "built"]

\* The second try block, save_xml and the message of success: the file is
\* written, or save_xml raises and the handler prints the failure.
PlanOnceSave(ok) ==
    /\ session.step = "exported"
    /\ IF ok
         THEN /\ DoSaveXml("A")
              /\ session' = [session EXCEPT !.step = "xml_done", !.xml = "written",
                                            !.reports = @ \cup {"xml_exported"}]
       ELSE /\ session' = [session EXCEPT !.step = "xml_done", !.xml = "failed",
                                          !.reports = @ \cup {"xml_failed"}]
            /\ UNCHANGED <<nsmap, pc, args, shape, plan_json, daily, tree, out>>

\* return result: with --once main returns after it, else the loop goes on.
PlanOnceReturn ==
    /\ session.step = "xml_done"
    /\ DoReturn("A")
    /\ session' = [session EXCEPT
                       !.step = IF session.once THEN "exited" ELSE "returned",
                       !.returned = session.call.markdown_plan]

\* The loop after plan_once: last_inputs is kept and Prompt.ask is shown.
AskNext ==
    /\ session.step = "returned"
    /\ session' = [session EXCEPT !.step = "prompt"]
    /\ UNCHANGED <<nsmap, pc, args, shape, plan_json, daily, tree, out>>

\* The user's answer: exit, quit or q ends the loop, anything else is the
\* change request of the next round.
Answer(exit, text) ==
    /\ session.step = "prompt"
    /\ session' = IF exit THEN [session EXCEPT !.step = "exited"]
                  ELSE [session EXCEPT !.step = "plan", !.change = text]
    /\ UNCHANGED <<nsmap, pc, args, shape, plan_json, daily, tree, out>>

NextSession ==
    \/ \E once \in BOOLEAN : MainStart(once)
    \/ \E md \in SessionMarkdowns, mp \in SessionMaps : Generate(md, mp)
    \/ \E ok \in BOOLEAN : WriteMarkdown(ok)
    \/ \E raises \in BOOLEAN : PlanOnceExport(raises)
    \/ \E ok \in BOOLEAN : PlanOnceSave(ok)
    \/ PlanOnceReturn
    \/ AskNext
    \/ \E exit \in BOOLEAN, text \in ChangeRequests : Answer(exit, text)

SpecSession == Init /\ [][NextSession]_vars

\* The steps of the program itself are taken when they can be: a call
\* returns or raises, and main goes on.  Nothing is assumed of the user at
\* the prompt.  export_xml can return exactly where it can raise (after the
\* first try block), so the condition on its step is written for the raising
\* branch, whose enabling is plain to evaluate: a session that stays before
\* the call for ever is excluded, and no session is made to raise.
SpecSessionFair ==
    /\ SpecSession
    /\ WF_vars(\E md \in SessionMarkdowns, mp \in SessionMaps : Generate(md, mp))
    /\ WF_vars(\E ok \in BOOLEAN : WriteMarkdown(ok))
    /\ WF_vars(PlanOnceExport(TRUE))
    /\ WF_vars(\E ok \in BOOLEAN : PlanOnceSave(ok))
    /\ WF_vars(PlanOnceReturn)
    /\ WF_vars(AskNext)

\* plan_once is past a write of this round that failed, and has not returned.
WriteFailed ==
    /\ session.step \in {"md_done", "exported", "xml_done"}
    /\ (session.md = "failed" \/ session.xml = "failed")

\* C15: in plan_once a failure to write the markdown copy or the XML file
\* never aborts the session: the failure is reported, a markdown write
\* failure does not prevent the XML export from being attempted afterwards,
\* plan_once still returns the generated result, and the interactive loop
\* proceeds to its next prompt.
C15_FailureNeverAborts ==
    /\ [](session.md = "failed" => "md_failed" \in session.reports)
    /\ [](session.xml = "failed" => "xml_failed" \in session.reports)
    /\ [](session.step \in {"main", "plan", "generated", "md_done", "exported",
                            "xml_done", "returned", "prompt", "exited"})
    /\ (session.step = "md_done" /\ session.md = "failed") ~> (session.xml /= "pending")
    /\ WriteFailed ~> (/\ session.step \in {"returned", "exited"}
                       /\ session.returned = session.call.markdown_plan)
    /\ (WriteFailed /\ ~session.once) ~> (session.step = "prompt")

\* C15 at work: in the loop both writes failed and both failures were
\* printed, plan_once returned the generated plan, and main is at its prompt.
C15_Witness ==
    /\ session.step = "prompt"
    /\ ~session.once
    /\ session.md = "failed"
    /\ session.xml = "failed"
    /\ session.reports = {"md_failed", "xml_failed"}
    /\ session.returned = session.call.markdown_plan
    /\ session.call.markdown_plan = HeuristicMd

\* C21: every DayPlan parse_markdown_days returns, in the three ways it is
\* made (the fallback without headings, the block of a heading, the day no
\* heading names), has its note unset exactly when its item list is not
\* empty: a day with items has no note, and a day without items has a note
\* (the raw chunk text, the document text, or the empty string).
C21_NoteIffNoItems ==
    \A c \in Callers :
        Built(c) /\ ~plan_json[c].found
        => \A i \in 1..Len(daily[c]) :
               /\ (daily[c][i].note = None) <=> (daily[c][i].items /= <<>>)
               /\ daily[c][i].items = <<>>
                  => daily[c][i].note =
                         IF HeadingParts(args[c].markdown_plan) = <<>>
                           THEN Strip(args[c].markdown_plan)
                         ELSE IF HeadingsOf(c, i) = {} THEN <<>>
                         ELSE Strip(Slice(args[c].markdown_plan,
                                  HeadingParts(args[c].markdown_plan)[Max(HeadingsOf(c, i))].start,
                                  HeadingParts(args[c].markdown_plan)[Max(HeadingsOf(c, i))].end))

\* C21 at work: three days; day 1 has a bullet and no note, day 2 has a
\* heading with one character after it, which is no item and is its note,
\* and day 3 has no heading and the empty note.
C21_Witness ==
    /\ pc["A"] = "built"
    /\ args["A"].days = 3
    /\ args["A"].markdown_plan =
           LineDay1 \o <<"\n">> \o LineMorning \o <<"\n">> \o LineDay2 \o <<"\n">>
    /\ Len(daily["A"][1].items) = 1
    /\ daily["A"][1].note = None
    /\ daily["A"][2] = DayPlan(2, <<>>, <<"U6E56">>)
    /\ daily["A"][3] = DayPlan(3, <<>>, <<>>)

\* C21 at work in the fallback: no heading, and each day has no items and
\* the document as its note.
C21_WitnessFallback ==
    /\ pc["A"] = "built"
    /\ args["A"].days = 2
    /\ HeadingParts(args["A"].markdown_plan) = <<>>
    /\ args["A"].markdown_plan /= <<>>
    /\ \A i \in 1..2 : daily["A"][i].items = <<>> /\ daily["A"][i].note /= None

\* ---------------------------------------------------------------------------
\* Exports of prose markdown in timeline mode
\* ---------------------------------------------------------------------------

\* A map that selects the timeline mode and gives the id attribute the name
\* of the type attribute: {"mode": "timeline", "event_id_attr": "type"}.
MapSameAttr ==
    JDict(<<<<"mode", JStr(<<"t", "i", "m", "e", "l", "i", "n", "e">>)>>, <<"event_id_attr", JStr(<<"t", "y", "p", "e">>)>>>>)

TimelineInputs ==
    {Args(Rome, d, Mid, Food, md, None, None, NoExample, File("ok", mp)) :
        d \in 1..MaxDays, md \in LinesUpTo(MaxLines), mp \in {MapTimeline, MapSameAttr}}

SpecTimeline == Init /\ [][NextOver({"A"}, TimelineInputs)]_vars

\* The id attributes of the caller's events, in document order.
EventIds(c) ==
    [k \in 1..Len(EventsOf(c)) |->
        EventsOf(c)[k].attrib[ShapeOrDefault(shape[c]).event_id_attr]]

\* The ids are pairwise distinct, and each is d<day>-<position> for the event
\* of an item and d<day>-rest for the event of a day without items.
DistinctIds(c) ==
    /\ \A j, k \in 1..Len(EventIds(c)) : j /= k => EventIds(c)[j] /= EventIds(c)[k]
    /\ \A i \in 1..Len(daily[c]) :
           \A j \in 1..Len(DaySegment(c, i)) :
               EventIds(c)[EventsBefore(daily[c], i) + j] =
                   <<"d">> \o IntStr(daily[c][i].index) \o <<"-">>
                       \o (IF daily[c][i].items = <<>> THEN <<"r", "e", "s", "t">> ELSE IntStr(j))

\* C22 as stated: for every markdown without a parseable json block, every
\* days >= 1 and a timeline-mode shape, the id attributes of all event
\* elements of the tree export_xml returns are pairwise distinct
\* (d<day>-<position> for item events, d<day>-rest for empty days).
C22_DistinctIds ==
    \A c \in Callers :
        BuiltTimeline(c) => DistinctIds(c)

\* C22, amended: the same for a timeline-mode shape whose id attribute and
\* type attribute have different names.
C22_DistinctIdsOwnName ==
    \A c \in Callers :
        /\ BuiltTimeline(c)
        /\ ShapeOrDefault(shape[c]).event_id_attr /= ShapeOrDefault(shape[c]).event_type_attr
        => /\ args[c].days >= 1
           /\ Len(EventsOf(c)) >= args[c].days
           /\ DistinctIds(c)

\* C22 at work: three days, two bullets under the heading of day 1 and
\* nothing for days 2 and 3: the ids are d1-1, d1-2, d2-rest, d3-rest.
C22_Witness ==
    /\ pc["A"] = "built"
    /\ BuiltTimeline("A")
    /\ args["A"].days = 3
    /\ args["A"].markdown_plan =
           LineDay1 \o <<"\n">> \o LineMorning \o <<"\n">> \o LineMorning \o <<"\n">>
    /\ ShapeOrDefault(shape["A"]).event_id_attr = <<"i", "d">>
    /\ EventIds("A") = <<<<"d", "1", "-", "1">>, <<"d", "1", "-", "2">>, <<"d", "2", "-", "r", "e", "s", "t">>, <<"d", "3", "-", "r", "e", "s", "t">>>>

\* ---------------------------------------------------------------------------
\* Exports of markdown with text on the heading lines
\* ---------------------------------------------------------------------------

\* Heading lines with a marker and one character after the token, with a
\* bullet and a title after it, and with blanks after it.
HeadDash == <<"D", "a", "y", " ", "1", " ", "-", " ", "x">>

HeadBullet == <<"d", "a", "y", " ", "1", " ", "U2022", " ", "t", "e", "a">>

HeadBlank == <<"D", "a", "y", " ", "2", " ", " ">>

HeadLines == {HeadDash, HeadBullet, HeadBlank, LineDay2, LineDay3, LineMorning, ItemPlain}

MaxHeadLines == 3

\* The texts of at most n of the lines, each ended by a newline.
RECURSIVE HeadMds(_)
HeadMds(n) ==
    IF n = 0 THEN {<<>>}
    ELSE LET S == HeadMds(n - 1)
         IN  S \cup {md \o l \o <<"\n">> : md \in S, l \in HeadLines}

HeadInputs ==
    {Args(Rome, 3, Mid, Food, md, None, None, NoExample, NoMap) :
        md \in HeadMds(MaxHeadLines)}

SpecHeadings == Init /\ [][NextOver({"A"}, HeadInputs)]_vars

\* The heading matches of the caller's markdown, and the one the DayPlan of
\* day i is made from: the last of that number.
MatchesOf(c) == FindHeadings(args[c].markdown_plan, 0)

MatchOf(c, i) == Max({k \in 1..Len(MatchesOf(c)) : MatchesOf(c)[k].num = i})

\* The block of the k-th heading: from the end of the matched token to the
\* start of the next match, or to the end of the document.
BlockOf(c, k) ==
    Slice(args[c].markdown_plan, MatchesOf(c)[k].end,
          IF k < Len(MatchesOf(c)) THEN MatchesOf(c)[k + 1].start
          ELSE Len(args[c].markdown_plan))

\* The rest of the heading line within the block, and the lines of the block
\* that are items: those of two characters or more once the blanks and the
\* bullet marker are dropped.
HeadingRest(c, k) == Slice(BlockOf(c, k), 0, FindClass(BlockOf(c, k), 0, {"\n"}))

ItemTexts(c, k) ==
    SelectSeq([j \in 1..Len(SplitLines(BlockOf(c, k))) |-> BulletText(SplitLines(BlockOf(c, k))[j])],
              LAMBDA l : Len(l) >= 2)

\* C23: the block of a day heading starts immediately after the matched day
\* token, not at the next line, and ends at the start of the next heading
\* match: text of at least 2 characters that remains on the heading line
\* after the token (blanks and bullet marker dropped, as for every line) is
\* that day's first PlanItem, and every item of a day comes from a line
\* inside that block.
C23_BlockAfterToken ==
    \A c \in Callers :
        Built(c) /\ ~plan_json[c].found
        => \A i \in 1..Len(daily[c]) :
               HeadingsOf(c, i) /= {}
               => /\ Len(BulletText(HeadingRest(c, MatchOf(c, i)))) >= 2
                     => /\ daily[c][i].items /= <<>>
                        /\ daily[c][i].items[1] =
                               LineItem(BulletText(HeadingRest(c, MatchOf(c, i))))
                  /\ daily[c][i].items =
                         [j \in 1..Len(ItemTexts(c, MatchOf(c, i))) |->
                             LineItem(ItemTexts(c, MatchOf(c, i))[j])]

\* C23 at work: "D3: x" and a bullet line under it: day 3 has two items, the
\* first with the title ": x" from the heading line, the second the bullet.
C23_Witness ==
    /\ pc["A"] = "built"
    /\ args["A"].markdown_plan = LineDay3 \o <<"\n">> \o LineMorning \o <<"\n">>
    /\ HeadingRest("A", 1) = <<":", " ", "x">>
    /\ Len(daily["A"][3].items) = 2
    /\ daily["A"][3].items[1].title = <<":", " ", "x">>
    /\ daily["A"][3].items[2].title = <<"U4E0A", "U5348", "UFF1A", "U897F", "U6E56">>

=============================================================================
